---- MODULE Spec2Model ----
(***************************************************************************)
(* Dependency security analysis engine of koishi-registry:                 *)
(*   - fetchWithRetry            (src/src/utils/fetcher.js)                *)
(*   - analyzePackageDependencies, metadata traversal                      *)
(*                               (src/src/utils/dependency-analyzer.ts)    *)
(*   - analyzePackageDependencies, sandbox install (src/unnamed/part_002)  *)
(***************************************************************************)
EXTENDS Integers, Sequences, FiniteSets, TLC

(***************************************************************************)
(* Bounds of the model.                                                    *)
(***************************************************************************)
\* number of fetchWithRetry calls that may run concurrently
NCalls == 2
\* largest `retries` argument of a single fetchWithRetry call
MaxRetr == 3
\* largest `retries` argument when several calls share the limiter
LimRetr == 2
\* config.NPMJS_CONCURRENT_REQUESTS, the argument of pLimit
NPMJS_CONCURRENT_REQUESTS == 1

Calls == 1..NCalls

(***************************************************************************)
(* JavaScript values used by fetchWithRetry.                               *)
(***************************************************************************)
\* a JS number: an integer or NaN
Num(n) == [nan |-> FALSE, n |-> n]
NaN == [nan |-> TRUE, n |-> 0]
\* truthiness of a JS number: 0 and NaN are falsy
TruthyNum(x) == ~x.nan /\ x.n # 0
\* x * k on JS numbers
MulNum(x, k) == IF x.nan THEN NaN ELSE Num(x.n * k)

Digits == {"0", "1", "2", "3", "4", "5", "6", "7", "8", "9"}
DigitVal(ch) ==
  CASE ch = "0" -> 0 [] ch = "1" -> 1 [] ch = "2" -> 2 [] ch = "3" -> 3
    [] ch = "4" -> 4 [] ch = "5" -> 5 [] ch = "6" -> 6 [] ch = "7" -> 7
    [] ch = "8" -> 8 [] ch = "9" -> 9

\* length of the longest prefix of s made of decimal digits
RECURSIVE DigitPrefixLen(_)
DigitPrefixLen(s) ==
  IF s = <<>> \/ Head(s) \notin Digits THEN 0 ELSE 1 + DigitPrefixLen(Tail(s))

RECURSIVE DigitsValue(_, _)
DigitsValue(s, k) ==
  IF k = 0 THEN 0 ELSE DigitsValue(s, k - 1) * 10 + DigitVal(s[k])

\* parseInt(s, 10): the value of the leading digits, NaN when there are none
ParseInt(s) ==
  IF DigitPrefixLen(s) = 0 THEN NaN ELSE Num(DigitsValue(s, DigitPrefixLen(s)))

\* res.headers.get('Retry-After'): null, or the header's text
NoHeader == [present |-> FALSE, text |-> <<>>]
Header(s) == [present |-> TRUE, text |-> s]
\* truthiness of headers.get(): null and the empty string are falsy
TruthyHeader(h) == h.present /\ h.text # <<>>

\* the Retry-After values a server sends: absent, empty, 0, 1, 2, 10 seconds,
\* and an HTTP-date
RetryAfterValues ==
  {NoHeader, Header(<<>>), Header(<<"0">>), Header(<<"1">>), Header(<<"2">>),
   Header(<<"1", "0">>), Header(<<"W", "e", "d">>)}

(***************************************************************************)
(* What one network request can produce: an HTTP response or a network     *)
(* error raised by fetch().                                                *)
(***************************************************************************)
HttpResp(status, jsonOk, ra) ==
  [kind |-> "http", status |-> status, jsonOk |-> jsonOk, retryAfter |-> ra,
   code |-> "-"]
NetErr(code) ==
  [kind |-> "neterr", status |-> 0, jsonOk |-> FALSE, retryAfter |-> NoHeader,
   code |-> code]
NoResp ==
  [kind |-> "none", status |-> 0, jsonOk |-> FALSE, retryAfter |-> NoHeader,
   code |-> "-"]

Responses ==
  {HttpResp(200, b, NoHeader) : b \in BOOLEAN}
    \cup {HttpResp(404, b, NoHeader) : b \in BOOLEAN}
    \cup {HttpResp(429, FALSE, h) : h \in RetryAfterValues}
    \cup {HttpResp(500, FALSE, NoHeader)}
    \cup {NetErr("ECONNRESET"), NetErr("ETIMEDOUT")}

\* the responses drawn when several calls share the limiter
LimiterResponses ==
  {HttpResp(200, TRUE, NoHeader), HttpResp(429, FALSE, NoHeader),
   HttpResp(500, FALSE, NoHeader), NetErr("ECONNRESET")}

\* response.ok
RespOk(r) == r.kind = "http" /\ r.status >= 200 /\ r.status <= 299

(***************************************************************************)
(* Errors: a message (a sequence of words) and an optional cause.          *)
(***************************************************************************)
NoCause == [defined |-> FALSE, status |-> 0, retryAfter |-> Num(0)]
Cause(status, ra) == [defined |-> TRUE, status |-> status, retryAfter |-> ra]
Err(msg, cause) == [message |-> msg, cause |-> cause]
NoErr == Err(<<>>, NoCause)

\* error.message.includes(word)
Includes(msg, word) == \E k \in DOMAIN msg : msg[k] = word

\* the url of the request, as a word of the messages
Url == "https://registry/pkg"

\* the error thrown for a 429 response
Error429(r) ==
  Err(<<"429 Too Many Requests">>,
      Cause(429, IF TruthyHeader(r.retryAfter)
                 THEN MulNum(ParseInt(r.retryAfter.text), 1000)
                 ELSE Num(0)))

\* the error thrown for a non-2xx status other than 404
ErrorHttp(r) == Err(<<"HTTP error! status:", "non-2xx", "for", Url>>, NoCause)

\* the error node-fetch raises for a failed request
ErrorNet(r) == Err(<<"request to", Url, "failed, reason:", r.code>>, NoCause)

\* the error response.json() raises for a body that is not JSON
ErrorJson(r) == Err(<<"invalid json response body at", Url>>, NoCause)

(***************************************************************************)
(* Results of a fetchWithRetry call.                                       *)
(***************************************************************************)
NoResult == [type |-> "none", status |-> 0, error |-> NoErr]
Undefined == [type |-> "undefined", status |-> 0, error |-> NoErr]
ResponseResult(r) == [type |-> "response", status |-> r.status, error |-> NoErr]
JsonResult(r) == [type |-> "json", status |-> r.status, error |-> NoErr]
Raised(e) == [type |-> "raised", status |-> 0, error |-> e]

VARIABLES
  fpc,          \* position of each call: idle, queued, inflight, waiting,
                \* returned, raised
  fargs,        \* arguments of each call: retries, returnJson,
                \* isNpmjsOfficialSource
  fi,           \* the loop variable i of each call
  fwait,        \* waitTime of the backoff a call is in (ms)
  fresp,        \* the outcome of the call's latest network request
  fres,         \* what the call returned or raised
  freqs,        \* number of network requests the call has issued
  fwaits,       \* number of backoff waits the call has started
  got2xx,       \* "no", or the kind of 2xx response the call has received
  activeCount,  \* npmjsLimiter: running functions
  queue         \* npmjsLimiter: functions waiting for a slot

fetchVars ==
  <<fpc, fargs, fi, fwait, fresp, fres, freqs, fwaits, got2xx, activeCount,
    queue>>

VARIABLES
  spc,          \* position of each analyzePackageDependencies call
  sargs,        \* its strategy, packageName and version
  sresult,      \* its local `result` object
  slist,        \* its local `insecurePackages`, the loaded deny-list
  svisited,     \* metadata scan: the `visited` set
  sframes,      \* metadata scan: the traverseDependencies calls made
  stasks,       \* metadata scan: the batch callbacks started
  stempDir,     \* sandbox scan: `tempDir`, NoDir for null
  sret,         \* what the call returned to its caller
  shit,         \* did the call return from the cache check
  sexpect,      \* the result of the previous, undisturbed call for the same
                \* identity, when this call began
  salone,       \* has no other call for the same identity overlapped it
  swork,        \* loads, fetches and installs the call has started
  sfailed,      \* the operations of the call that have failed
  analysisCache,\* the two modules' analysisCache maps
  lastResult,   \* per strategy and key: the result of the latest completed
                \* call, when no other call for that key overlapped it
  cleared,      \* per strategy: has clearAnalysisCache() been called
  fsDirs,       \* the temporary directories that exist, with their content
  now           \* the clock read by new Date()

scanVars ==
  <<spc, sargs, sresult, slist, svisited, sframes, stasks, stempDir, sret,
    shit, sexpect, salone, swork, sfailed, analysisCache, lastResult, cleared,
    fsDirs, now>>

VARIABLES
  epc,          \* position of a getInstalledPackages call made on its own
  etree,        \* the node_modules tree it is given
  eunreadable,  \* the directories whose readdir fails during the call
  ereturned     \* the array it has returned

enumVars == <<epc, etree, eunreadable, ereturned>>

VARIABLES
  known         \* the deny-list loadInsecurePackages() currently resolves to

vars == <<fetchVars, scanVars, enumVars, known>>

NoArgs == [retries |-> 0, returnJson |-> FALSE, isNpmjsOfficialSource |-> FALSE]

FetchInit ==
  /\ fpc = [c \in Calls |-> "idle"]
  /\ fargs = [c \in Calls |-> NoArgs]
  /\ fi = [c \in Calls |-> 0]
  /\ fwait = [c \in Calls |-> 0]
  /\ fresp = [c \in Calls |-> NoResp]
  /\ fres = [c \in Calls |-> NoResult]
  /\ freqs = [c \in Calls |-> 0]
  /\ fwaits = [c \in Calls |-> 0]
  /\ got2xx = [c \in Calls |-> "no"]
  /\ activeCount = 0
  /\ queue = <<>>

Pow2(n) == 2 ^ n

(***************************************************************************)
(* fetchWithRetry: the body of one loop iteration.                         *)
(***************************************************************************)
\* mutant: 404 is not exempted from the non-2xx check
ThrownErrorNoExemption(r, returnJson) ==
  CASE r.kind = "neterr" -> ErrorNet(r)
    [] r.kind = "http" /\ r.status = 429 -> Error429(r)
    [] r.kind = "http" /\ r.status # 429 /\ ~RespOk(r) -> ErrorHttp(r)
    [] r.kind = "http" /\ r.status # 429 /\ RespOk(r)
         /\ returnJson /\ ~r.jsonOk -> ErrorJson(r)
    [] OTHER -> NoErr

\* the error thrown inside the try block for outcome r of the request, NoErr
\* when the iteration returns normally
ThrownError(r, returnJson) ==
  CASE r.kind = "neterr" -> ErrorNet(r)
    [] r.kind = "http" /\ r.status = 429 -> Error429(r)
    [] r.kind = "http" /\ r.status # 429 /\ ~RespOk(r) /\ r.status # 404 ->
         ErrorHttp(r)
    [] r.kind = "http" /\ r.status # 429 /\ (RespOk(r) \/ r.status = 404)
         /\ returnJson /\ ~r.jsonOk -> ErrorJson(r)
    [] OTHER -> NoErr

\* the value the try block returns when nothing is thrown
ReturnValue(r, returnJson) ==
  IF returnJson THEN JsonResult(r) ELSE ResponseResult(r)

\* const isLastAttempt = i === retries - 1
IsLastAttempt(i, retries) == i = retries - 1

\* the 429 branch: const waitTime = retryAfter || 2 ** i * 1000
WaitTime429(error, i) ==
  IF TruthyNum(error.cause.retryAfter)
  THEN error.cause.retryAfter.n
  ELSE Pow2(i) * 1000

\* mutant: the ECONNRESET branch waits the flat second of the default branch
WaitTimeResetFlat(i) == 1000

\* the ECONNRESET branch: const waitTime = 2 ** i * 1000
WaitTimeReset(i) == Pow2(i) * 1000

\* the default branch: setTimeout(resolve, 1000)
WaitTimeDefault == 1000

\* the catch block: "wait" with the time to wait, or "raise"
Catch(error, i, retries) ==
  IF error.cause.defined /\ error.cause.status = 429
  THEN [do |-> "wait", waitTime |-> WaitTime429(error, i)]
  ELSE IF Includes(error.message, "ECONNRESET")
  THEN [do |-> "wait", waitTime |-> WaitTimeReset(i)]
  ELSE IF IsLastAttempt(i, retries)
  THEN [do |-> "raise", waitTime |-> 0]
  ELSE [do |-> "wait", waitTime |-> WaitTimeDefault]

(***************************************************************************)
(* npmjsLimiter = pLimit(config.NPMJS_CONCURRENT_REQUESTS)                 *)
(***************************************************************************)
\* mutant: the limiter starts queued functions without counting the running
LimiterAlwaysAdmits == TRUE

\* the limiter starts a queued function only while a slot is free
LimiterHasSlot == activeCount < NPMJS_CONCURRENT_REQUESTS

\* does this call go through the limiter
ThroughLimiter(args) == args.isNpmjsOfficialSource

\* the start of loop iteration i of call c with arguments args: the request
\* is queued in the limiter, or issued at once
BeginAttempt(c, args) ==
  IF ThroughLimiter(args)
  THEN /\ fpc' = [fpc EXCEPT ![c] = "queued"]
       /\ queue' = Append(queue, c)
       /\ freqs' = freqs
  ELSE /\ fpc' = [fpc EXCEPT ![c] = "inflight"]
       /\ queue' = queue
       /\ freqs' = [freqs EXCEPT ![c] = @ + 1]

\* fetchWithRetry(url, options, retries, returnJson, isNpmjsOfficialSource)
\* is called
Call(c, retriesSet, jsonSet, npmSet) ==
  /\ fpc[c] = "idle"
  /\ \E n \in retriesSet, j \in jsonSet, p \in npmSet :
       LET args == [retries |-> n, returnJson |-> j,
                    isNpmjsOfficialSource |-> p]
       IN /\ fargs' = [fargs EXCEPT ![c] = args]
          /\ BeginAttempt(c, args)
  /\ UNCHANGED <<fi, fwait, fresp, fres, fwaits, got2xx, activeCount>>

\* the limiter starts the function at the head of its queue
Admit ==
  /\ queue # <<>>
  /\ LimiterHasSlot
  /\ activeCount' = activeCount + 1
  /\ fpc' = [fpc EXCEPT ![Head(queue)] = "inflight"]
  /\ freqs' = [freqs EXCEPT ![Head(queue)] = @ + 1]
  /\ queue' = Tail(queue)
  /\ UNCHANGED <<fargs, fi, fwait, fresp, fres, fwaits, got2xx>>

\* mutant: the slot is kept when fetchOperation throws
ReleaseOnReturnOnly(count, args, r) ==
  IF ThroughLimiter(args) /\ r.kind = "http" /\ r.status # 429
  THEN count - 1 ELSE count

\* fetchOperation has settled with outcome r, by returning res or by throwing:
\* the limiter, if the request went through it, counts one running function
\* less
Release(count, args, r) == IF ThroughLimiter(args) THEN count - 1 ELSE count

\* the request of call c ends with outcome r: the limiter slot is released
\* and the rest of the loop iteration runs up to its return, throw or wait
Respond(c, r) ==
  /\ fpc[c] = "inflight"
  /\ activeCount' = Release(activeCount, fargs[c], r)
  /\ fresp' = [fresp EXCEPT ![c] = r]
  /\ got2xx' = [got2xx EXCEPT ![c] =
       IF RespOk(r)
       THEN (IF fargs[c].returnJson /\ ~r.jsonOk THEN "unparsable" ELSE "ok")
       ELSE @]
  /\ LET error == ThrownError(r, fargs[c].returnJson)
         todo == Catch(error, fi[c], fargs[c].retries)
     IN IF error = NoErr
        THEN /\ fpc' = [fpc EXCEPT ![c] = "returned"]
             /\ fres' = [fres EXCEPT ![c] =
                  ReturnValue(r, fargs[c].returnJson)]
             /\ UNCHANGED <<fwait, fwaits>>
        ELSE IF todo.do = "raise"
        THEN /\ fpc' = [fpc EXCEPT ![c] = "raised"]
             /\ fres' = [fres EXCEPT ![c] = Raised(error)]
             /\ UNCHANGED <<fwait, fwaits>>
        ELSE /\ fpc' = [fpc EXCEPT ![c] = "waiting"]
             /\ fwait' = [fwait EXCEPT ![c] = todo.waitTime]
             /\ fwaits' = [fwaits EXCEPT ![c] = @ + 1]
             /\ UNCHANGED fres
  /\ UNCHANGED <<fargs, fi, freqs, queue>>

\* mutant: the loop runs one iteration too many
LoopOffByOne(i, retries) == i <= retries

\* the loop condition: i < retries
LoopContinues(i, retries) == i < retries

\* the backoff timer of call c fires: i++, then the next iteration, or the
\* end of the loop and of the function
Timer(c) ==
  /\ fpc[c] = "waiting"
  /\ fi' = [fi EXCEPT ![c] = @ + 1]
  /\ fwait' = [fwait EXCEPT ![c] = 0]
  /\ IF LoopContinues(fi[c] + 1, fargs[c].retries)
     THEN /\ BeginAttempt(c, fargs[c])
          /\ fresp' = [fresp EXCEPT ![c] = NoResp]
          /\ UNCHANGED fres
     ELSE /\ fpc' = [fpc EXCEPT ![c] = "returned"]
          /\ fres' = [fres EXCEPT ![c] = Undefined]
          /\ UNCHANGED <<fresp, queue, freqs>>
  /\ UNCHANGED <<fargs, fwaits, got2xx, activeCount>>

(***************************************************************************)
(* analyzePackageDependencies: values.                                     *)
(***************************************************************************)
\* number of analyzePackageDependencies calls
NScans == 2
Scans == 1..NScans

\* the two analyzer modules, each with its own analysisCache
Strategies == {"metadata", "sandbox"}

\* const UNSAFE_DEPENDENCIES = new Set(['sharp', 'puppeteer', 'canvas'])
UNSAFE_DEPENDENCIES == {"sharp", "puppeteer", "canvas"}

\* const maxDepth = 3
maxDepth == 3
\* const batchSize = 10
batchSize == 10

\* one declared dependency: name and version range
Dep(name, range) == [name |-> name, range |-> range]

\* the manifest of one published version
Manifest(deps, peer, optional) ==
  [dependencies |-> deps, peerDependencies |-> peer,
   optionalDependencies |-> optional]

\* a registry document: dist-tags and versions, either of which may be absent
PkgDoc(latest, versions) ==
  [defined |-> TRUE,
   distTags |-> [present |-> TRUE, latest |-> latest],
   versions |-> [present |-> TRUE, map |-> versions]]
\* a payload without dist-tags and versions, such as the body of a 404
AbsentDoc ==
  [defined |-> TRUE,
   distTags |-> [present |-> FALSE, latest |-> ""],
   versions |-> [present |-> FALSE, map |-> <<>>]]

\* undefined, as fetchWithRetry returns it after its loop has ended
UndefinedDoc == [AbsentDoc EXCEPT !.defined = FALSE]

\* declarations of the given names, each with the range ^1.0.0
DepsOn(names) == [k \in DOMAIN names |-> Dep(names[k], "^1.0.0")]

\* a package published once, as 1.0.0, with the given manifest
Published(deps, peer, optional) ==
  PkgDoc("1.0.0", [v \in {"1.0.0"} |-> Manifest(deps, peer, optional)])

\* the packages the registry knows
RegistryNames ==
  {"plugin", "lib", "puppeteer", "canvas", "sharp", "evil",
   "d0", "d1", "d2", "d3", "d4", "d5",
   "a", "b", "selfdep",
   "multi", "mid",
   "race", "ra", "rb", "rc", "rx",
   "wide", "wa", "wb", "big"}

\* the content of the registry:
\*  - a plugin that depends on a library and on puppeteer; the library
\*    depends back on the plugin and on a deny-listed package;
\*  - a chain d0 -> d1 -> ... -> d5;
\*  - a cycle a -> b -> a and a package that depends on itself;
\*  - a package with one name in each dependency section, whose dependency
\*    `mid` declares a deny-listed peer dependency;
\*  - a package `race` from which rx is reached by a path of two edges
\*    (ra) and by one of three (rb, rc), and rx depends on a deny-listed
\*    package;
\*  - a package `wide` with two dependencies that have six and five
\*    dependencies of their own;
\*  - a package `big` with eleven dependencies, ten unpublished names and
\*    then the library, so that its dependencies take two batches
Registry ==
  [n \in RegistryNames |->
     CASE n = "d0" -> Published(DepsOn(<<"d1">>), <<>>, <<>>)
       [] n = "d1" -> Published(DepsOn(<<"d2">>), <<>>, <<>>)
       [] n = "d2" -> Published(DepsOn(<<"d3">>), <<>>, <<>>)
       [] n = "d3" -> Published(DepsOn(<<"d4">>), <<>>, <<>>)
       [] n = "d4" -> Published(DepsOn(<<"d5">>), <<>>, <<>>)
       [] n = "a" -> Published(DepsOn(<<"b">>), <<>>, <<>>)
       [] n = "b" -> Published(DepsOn(<<"a">>), <<>>, <<>>)
       [] n = "selfdep" -> Published(DepsOn(<<"selfdep">>), <<>>, <<>>)
       [] n = "multi" -> Published(DepsOn(<<"mid">>), DepsOn(<<"canvas">>),
                                   DepsOn(<<"sharp">>))
       [] n = "mid" -> Published(<<>>, DepsOn(<<"evil">>), <<>>)
       [] n = "race" -> Published(DepsOn(<<"ra", "rb">>), <<>>, <<>>)
       [] n = "ra" -> Published(DepsOn(<<"rx">>), <<>>, <<>>)
       [] n = "rb" -> Published(DepsOn(<<"rc">>), <<>>, <<>>)
       [] n = "rc" -> Published(DepsOn(<<"rx">>), <<>>, <<>>)
       [] n = "rx" -> Published(DepsOn(<<"evil">>), <<>>, <<>>)
       [] n = "wide" -> Published(DepsOn(<<"wa", "wb">>), <<>>, <<>>)
       [] n = "wa" ->
            Published(DepsOn(<<"w1", "w2", "w3", "w4", "w5", "w6">>),
                      <<>>, <<>>)
       [] n = "wb" ->
            Published(DepsOn(<<"w7", "w8", "w9", "w10", "w11">>), <<>>, <<>>)
       [] n = "big" ->
            Published(DepsOn(<<"x1", "x2", "x3", "x4", "x5", "x6", "x7", "x8",
                               "x9", "x10", "lib">>), <<>>, <<>>)
       [] n = "plugin" ->
            PkgDoc("1.0.0",
              [v \in {"1.0.0"} |->
                 Manifest(<<Dep("lib", "^1.0.0"), Dep("puppeteer", "^1.0.0")>>,
                          <<>>, <<>>)])
       [] n = "lib" ->
            PkgDoc("1.0.0",
              [v \in {"1.0.0"} |->
                 Manifest(<<Dep("plugin", "^1.0.0"), Dep("evil", "^1.0.0")>>,
                          <<>>, <<>>)])
       [] OTHER ->
            PkgDoc("1.0.0", [v \in {"1.0.0"} |-> Manifest(<<>>, <<>>, <<>>)])]

\* the (packageName, version) pairs the callers ask for
Identities ==
  {<<"plugin", "1.0.0">>, <<"plugin", "9.9.9">>, <<"evil", "1.0.0">>}

\* the (packageName, version) pairs scanned to examine the traversal
GraphIdentities ==
  {<<"plugin", "1.0.0">>, <<"plugin", "9.9.9">>, <<"puppeteer", "1.0.0">>,
   <<"d0", "1.0.0">>, <<"a", "1.0.0">>, <<"selfdep", "1.0.0">>,
   <<"multi", "1.0.0">>, <<"race", "1.0.0">>, <<"wide", "1.0.0">>,
   <<"big", "1.0.0">>}

\* the names on the external deny-list; one of them is in the built-in set
\* as well
ExternalList == {"evil", "canvas"}

\* const cacheKey = `${packageName}@${version}`
CacheKey(packageName, version) == packageName \o "@" \o version
CacheKeys == {CacheKey(id[1], id[2]) : id \in Identities \cup GraphIdentities}

\* an AnalysisResult; error "" stands for an unset error field
Result(isInsecure, pkgs, at, error) ==
  [isInsecure |-> isInsecure, insecurePackages |-> pkgs, analyzedAt |-> at,
   error |-> error]
\* no AnalysisResult (an absent cache entry, a call that has not returned)
NoRes == Result(FALSE, <<>>, 0, "")

NoScanArgs == [strategy |-> "-", packageName |-> "", version |-> ""]
NoWork == [loads |-> 0, fetches |-> 0, installs |-> 0]

\* what loadInsecurePackages() can do: resolve to the list, reject, or resolve
\* to nothing
LoadOutcomes == {"list", "raise", "nothing"}

\* what `await fetchWithRetry(url)` can do in a scan: resolve to the registry
\* document, to a payload without the expected fields, to undefined, or reject
FetchOutcomes == {"data", "absent", "undefined", "raise"}

\* the error messages recorded in result.error
MsgLoad == "deny-list load failed"
MsgNothing == "Cannot read properties of undefined (reading 'has')"
MsgFetch == "fetch failed"
MsgNotFound == "Package version not found"
MsgMkdtemp == "mkdtemp failed"
MsgWrite == "writeFile failed"
MsgInstall == "Installation failed: yarn exited"

\* let tempDir = null
NoDir == 0
\* the names mkdtemp can hand out: one for every call
TmpNames == 1..NScans
\* a temporary directory: whether it exists, the call that made it, whether
\* package.json was written and the package that was installed into it
DirState(exists, owner, written, installed) ==
  [exists |-> exists, owner |-> owner, written |-> written,
   installed |-> installed]
NoDirState == DirState(FALSE, 0, FALSE, "")

ScanInit ==
  /\ spc = [s \in Scans |-> "idle"]
  /\ sargs = [s \in Scans |-> NoScanArgs]
  /\ sresult = [s \in Scans |-> NoRes]
  /\ slist = [s \in Scans |-> {}]
  /\ svisited = [s \in Scans |-> {}]
  /\ sframes = [s \in Scans |-> <<>>]
  /\ stasks = [s \in Scans |-> <<>>]
  /\ stempDir = [s \in Scans |-> NoDir]
  /\ sret = [s \in Scans |-> NoRes]
  /\ shit = [s \in Scans |-> FALSE]
  /\ sexpect = [s \in Scans |-> NoRes]
  /\ salone = [s \in Scans |-> TRUE]
  /\ swork = [s \in Scans |-> NoWork]
  /\ sfailed = [s \in Scans |-> {}]
  /\ analysisCache = [g \in Strategies |-> [k \in CacheKeys |-> NoRes]]
  /\ lastResult = [g \in Strategies |-> [k \in CacheKeys |-> NoRes]]
  /\ cleared = [g \in Strategies |-> FALSE]
  /\ fsDirs = [d \in TmpNames |-> NoDirState]
  /\ now = 0

(***************************************************************************)
(* Checking names against the unsafe sets.                                 *)
(***************************************************************************)
\* result.insecurePackages.includes(name)
IncludesName(pkgs, name) == \E k \in DOMAIN pkgs : pkgs[k] = name

\* mutant: the name is pushed without the includes test
FlagAlwaysPush(result, name) ==
  [result EXCEPT !.isInsecure = TRUE, !.insecurePackages = Append(@, name)]

\* result.isInsecure = true; push the name unless it is included already
Flag(result, name) ==
  [result EXCEPT
     !.isInsecure = TRUE,
     !.insecurePackages = IF IncludesName(@, name) THEN @ ELSE Append(@, name)]

\* the two checks made for a dependency name: the built-in set, then the
\* loaded deny-list
CheckName(result, list, name) ==
  LET r1 == IF name \in UNSAFE_DEPENDENCIES THEN Flag(result, name) ELSE result
  IN IF name \in list THEN Flag(r1, name) ELSE r1

\* the checks made for each name of a sequence of names, in order
RECURSIVE CheckNames(_, _, _)
CheckNames(result, list, names) ==
  IF names = <<>> THEN result
  ELSE CheckNames(CheckName(result, list, Head(names)), list, Tail(names))

\* mutant: the flag is set and the name is not pushed
FlagSelfNoPush(result, packageName) == [result EXCEPT !.isInsecure = TRUE]

\* the self check: only the loaded deny-list is consulted
FlagSelf(result, packageName) ==
  [result EXCEPT !.isInsecure = TRUE,
                 !.insecurePackages = Append(@, packageName)]

(***************************************************************************)
(* Merging the dependency sections of a manifest: { ...a, ...b, ...c }.    *)
(***************************************************************************)
\* obj[name] = range: the position of an existing key is kept, a new key is
\* appended
SetKey(entries, e) ==
  IF \E k \in DOMAIN entries : entries[k].name = e.name
  THEN [k \in DOMAIN entries |->
          IF entries[k].name = e.name THEN e ELSE entries[k]]
  ELSE Append(entries, e)

RECURSIVE Spread(_, _)
Spread(entries, more) ==
  IF more = <<>> THEN entries
  ELSE Spread(SetKey(entries, Head(more)), Tail(more))

\* allDeps of the scanned version
AllDeps(versionInfo) ==
  Spread(Spread(Spread(<<>>, versionInfo.dependencies),
                versionInfo.peerDependencies),
         versionInfo.optionalDependencies)

\* nestedDeps of a dependency: its `dependencies` section alone
NestedDeps(depVersionInfo) == Spread(<<>>, depVersionInfo.dependencies)

\* Object.keys(allDeps)
Keys(entries) == [k \in DOMAIN entries |-> entries[k].name]

\* const depKey = `${depName}@${versionRange}`
DepKey(e) == e.name \o "@" \o e.range

(***************************************************************************)
(* traverseDependencies: the calls (frames) and their batch callbacks      *)
(* (tasks) of one metadata scan, kept in a record st.                      *)
(***************************************************************************)
Frame(deps, currentDepth, parent, done) ==
  [deps |-> deps, i |-> 0, currentDepth |-> currentDepth, parent |-> parent,
   done |-> done]
Task(frame, batch, e, state) ==
  [frame |-> frame, batch |-> batch, depName |-> e.name,
   versionRange |-> e.range, state |-> state]

Min(a, b) == IF a < b THEN a ELSE b

\* const batch = depEntries.slice(i, i + batchSize)
CurrentBatch(frame) ==
  SubSeq(frame.deps, frame.i + 1, Min(frame.i + batchSize, Len(frame.deps)))

\* mutant: the visited set is never consulted
VisitedNever(visited, e) == FALSE

\* has the dependency been visited: visited.has(depKey)
Visited(visited, e) == DepKey(e) \in visited

\* mutant: the key is not recorded
VisitedAddNothing(visited, e) == visited

\* visited.add(depKey)
VisitedAdd(visited, e) == visited \cup {DepKey(e)}

\* one batch callback of frame f, run up to its first await: the two checks,
\* then the test of the visited set and, for a new key, the fetch
RunCallback(st, f, list, e) ==
  LET r == CheckName(st.result, list, e.name)
  IN IF Visited(st.visited, e)
     THEN [st EXCEPT !.result = r,
                     !.tasks = Append(@, Task(f, st.frames[f].i, e, "done"))]
     ELSE [st EXCEPT !.result = r,
                     !.visited = VisitedAdd(@, e),
                     !.tasks = Append(@, Task(f, st.frames[f].i, e, "fetch")),
                     !.fetches = @ + 1]

\* batch.map(async ...): the callbacks start in the order of the batch
RECURSIVE RunBatch(_, _, _, _)
RunBatch(st, f, list, entries) ==
  IF entries = <<>> THEN st
  ELSE CHOOSE r \in {RunBatch(st1, f, list, Tail(entries)) :
                       st1 \in {RunCallback(st, f, list, Head(entries))}} : TRUE

\* mutant: the depth test lets one more level through
DepthReachedLate(currentDepth) == currentDepth > maxDepth

\* if (currentDepth >= maxDepth) return
DepthReached(currentDepth) == currentDepth >= maxDepth

\* traverseDependencies(dependencies, ..., currentDepth, maxDepth), called by
\* task `parent` (0 for the call made by analyzePackageDependencies), run up
\* to the await of its first batch
TraverseDependencies(st, list, deps, currentDepth, parent) ==
  IF DepthReached(currentDepth) \/ deps = <<>>
  THEN [st EXCEPT !.frames = Append(@, Frame(deps, currentDepth, parent, TRUE))]
  ELSE CHOOSE r \in
         {RunBatch(st1, Len(st1.frames), list,
                   CurrentBatch(st1.frames[Len(st1.frames)])) :
            st1 \in {[st EXCEPT !.frames =
                        Append(@, Frame(deps, currentDepth, parent, FALSE))]}} :
         TRUE

\* the tasks whose nested traverseDependencies call has returned
ReturnedTasks(st) ==
  {t \in DOMAIN st.tasks :
     /\ st.tasks[t].state = "nested"
     /\ \E f \in DOMAIN st.frames : st.frames[f].parent = t /\ st.frames[f].done}

\* the frames whose Promise.all of the current batch has resolved
ResolvedFrames(st) ==
  {f \in DOMAIN st.frames :
     /\ ~st.frames[f].done
     /\ \A t \in DOMAIN st.tasks :
          (st.tasks[t].frame = f /\ st.tasks[t].batch = st.frames[f].i) =>
            st.tasks[t].state = "done"}

\* everything that runs without waiting for I/O: callbacks end when their
\* nested call has returned, a resolved batch is followed by the next batch
\* of its frame, and a frame without a next batch returns
\* one such step: st itself when every callback and frame is waiting
SettleStep(st, list) ==
  IF ReturnedTasks(st) # {}
  THEN LET t == CHOOSE t \in ReturnedTasks(st) : TRUE
       IN [st EXCEPT !.tasks[t].state = "done"]
  ELSE IF ResolvedFrames(st) # {}
  THEN LET f == CHOOSE f \in ResolvedFrames(st) : TRUE
           next == st.frames[f].i + batchSize
       IN IF next < Len(st.frames[f].deps)
          THEN LET st1 == [st EXCEPT !.frames[f].i = next]
               IN RunBatch(st1, f, list, CurrentBatch(st1.frames[f]))
          ELSE [st EXCEPT !.frames[f].done = TRUE]
  ELSE st

RECURSIVE Settle(_, _)
Settle(st, list) ==
  CHOOSE r \in {IF st1 = st THEN st ELSE Settle(st1, list) :
                  st1 \in {SettleStep(st, list)}} : TRUE

\* the document a fetch outcome hands to the scan
DocOf(outcome, name) ==
  CASE outcome = "data" -> Registry[name]
    [] outcome = "absent" -> AbsentDoc
    [] OTHER -> UndefinedDoc

\* the outcomes a fetch of `name` can have
OutcomesFor(name) ==
  IF name \in DOMAIN Registry THEN FetchOutcomes ELSE FetchOutcomes \ {"data"}

\* mutant: the error of one dependency leaves the traversal and reaches the
\* catch block of analyzePackageDependencies
CatchDepErrorRethrows(st, t) ==
  [st EXCEPT !.result.error = MsgFetch,
             !.tasks = [k \in DOMAIN @ |-> [@[k] EXCEPT !.state = "done"]],
             !.frames = [f \in DOMAIN @ |-> [@[f] EXCEPT !.done = TRUE]]]

\* the catch block of a batch callback: the error is logged and the callback
\* ends
CatchDepError(st, t) == [st EXCEPT !.tasks[t].state = "done"]

\* the rest of the callback of task t once its fetch has settled
AfterDepFetch(st, list, t, outcome) ==
  LET doc == DocOf(outcome, st.tasks[t].depName)
      ended == [st EXCEPT !.tasks[t].state = "done"]
  IN IF outcome = "raise" THEN CatchDepError(st, t)
     ELSE IF ~doc.defined \/ ~doc.distTags.present \/ ~doc.versions.present
     THEN ended
     ELSE IF doc.distTags.latest = ""
             \/ doc.distTags.latest \notin DOMAIN doc.versions.map
     THEN ended
     ELSE LET nestedDeps == NestedDeps(doc.versions.map[doc.distTags.latest])
          IN IF Len(nestedDeps) > 0
             THEN TraverseDependencies(
                    [st EXCEPT !.tasks[t].state = "nested"], list, nestedDeps,
                    st.frames[st.tasks[t].frame].currentDepth + 1, t)
             ELSE ended

(***************************************************************************)
(* analyzePackageDependencies: what the two strategies share.              *)
(***************************************************************************)
KeyOf(args) == CacheKey(args.packageName, args.version)

\* the calls in progress
Active(s) == spc[s] \notin {"idle", "done"}

\* the other calls in progress for the same module and cache key
Overlapping(s, args) ==
  {o \in Scans \ {s} :
     Active(o) /\ sargs[o].strategy = args.strategy /\ KeyOf(sargs[o]) = KeyOf(args)}

\* the two modules are alternative builds of the analyzer: the calls of one
\* run are all made to the same module
ModuleInUse(g) ==
  \A o \in Scans : spc[o] # "idle" => sargs[o].strategy = g

\* mutant: the cache check never finds an entry
CacheNeverHas(cache, key) == FALSE

\* analysisCache.has(cacheKey), followed by the truthiness test of the entry
CacheHas(cache, key) == cache[key] # NoRes

\* mutant: the result is handed back without being stored
CachePutNothing(cache, key, result) == cache

\* analysisCache.set(cacheKey, result)
CachePut(cache, key, result) == [cache EXCEPT ![key] = result]

\* analysisCache.get(cacheKey): the stored object itself
CacheGet(cache, key, at) == cache[key]

\* the call hands r to its caller
Return(s, r) ==
  /\ spc' = [spc EXCEPT ![s] = "done"]
  /\ sret' = [sret EXCEPT ![s] = r]
  /\ lastResult' = [lastResult EXCEPT ![sargs[s].strategy][KeyOf(sargs[s])] =
       IF salone[s] THEN r ELSE NoRes]

\* analysisCache.set(cacheKey, result); return result.  In the sandbox
\* module the finally block removes tempDir before the caller gets the result
StoreAndReturn(s, r) ==
  /\ sresult' = [sresult EXCEPT ![s] = r]
  /\ analysisCache' = [analysisCache EXCEPT ![sargs[s].strategy] =
       CachePut(@, KeyOf(sargs[s]), r)]
  /\ IF sargs[s].strategy = "sandbox" /\ stempDir[s] # NoDir
     THEN /\ spc' = [spc EXCEPT ![s] = "cleanup"]
          /\ UNCHANGED <<sret, lastResult>>
     ELSE Return(s, r)

\* mutant: the error leaves the call instead of being recorded
CatchRethrows(s, message) ==
  /\ spc' = [spc EXCEPT ![s] = "raised"]
  /\ UNCHANGED <<sresult, analysisCache, sret, lastResult>>

\* the outer catch block: result.error = error.message, then store and return
CatchError(s, message) ==
  StoreAndReturn(s, [sresult[s] EXCEPT !.error = message])

\* the failure of the metadata fetch of one dependency
DepFailure(depName) == "dep " \o depName

\* an operation of call s has failed
Failed(s, kind) == sfailed' = [sfailed EXCEPT ![s] = @ \cup {kind}]

\* the call goes on to wait for its next operation
Await(s, pc) ==
  /\ spc' = [spc EXCEPT ![s] = pc]
  /\ UNCHANGED <<sresult, analysisCache, sret, lastResult>>

\* mutant: the scanned package's own name is never looked up
SelfListedNever(list, packageName) == FALSE

\* insecurePackages.has(packageName)
SelfListed(list, packageName) == packageName \in list

\* analyzePackageDependencies(packageName, version) of module g is called:
\* the cache check and, on a miss, the new result and the deny-list load
AnalyzeCall(s, g, id) ==
  LET args == [strategy |-> g, packageName |-> id[1], version |-> id[2]]
      key == KeyOf(args)
  IN /\ spc[s] = "idle"
     /\ \A o \in Scans : o < s => spc[o] # "idle"
     /\ ModuleInUse(g)
     /\ now' = now + 1
     /\ sargs' = [sargs EXCEPT ![s] = args]
     /\ sexpect' = [sexpect EXCEPT ![s] = lastResult[g][key]]
     /\ IF CacheHas(analysisCache[g], key)
        THEN /\ spc' = [spc EXCEPT ![s] = "done"]
             /\ sret' = [sret EXCEPT ![s] = CacheGet(analysisCache[g], key, now')]
             /\ shit' = [shit EXCEPT ![s] = TRUE]
             /\ lastResult' =
                  IF Overlapping(s, args) = {}
                  THEN [lastResult EXCEPT ![g][key] =
                          CacheGet(analysisCache[g], key, now')]
                  ELSE lastResult
             /\ UNCHANGED <<sresult, salone, swork>>
        ELSE /\ spc' = [spc EXCEPT ![s] = "loading"]
             /\ sresult' = [sresult EXCEPT ![s] = Result(FALSE, <<>>, now', "")]
             /\ swork' = [swork EXCEPT ![s].loads = @ + 1]
             /\ salone' = [o \in Scans |->
                  IF o = s THEN Overlapping(s, args) = {}
                  ELSE IF o \in Overlapping(s, args) THEN FALSE ELSE salone[o]]
             /\ UNCHANGED <<sret, shit, lastResult>>
     /\ UNCHANGED <<slist, svisited, sframes, stasks, stempDir, sfailed,
                    analysisCache, cleared, fsDirs>>

\* `await loadInsecurePackages()` settles, and the call runs up to its next
\* await: the self check, then the root fetch (metadata) or mkdtemp (sandbox)
LoadSettled(s, outcome) ==
  /\ spc[s] = "loading"
  /\ IF outcome = "raise"
     THEN /\ CatchError(s, MsgLoad)
          /\ Failed(s, "load")
          /\ UNCHANGED <<slist, swork>>
     ELSE IF outcome = "nothing"
     THEN /\ CatchError(s, MsgNothing)
          /\ Failed(s, "load")
          /\ UNCHANGED <<slist, swork>>
     ELSE /\ slist' = [slist EXCEPT ![s] = known]
          /\ UNCHANGED sfailed
          /\ IF SelfListed(known, sargs[s].packageName)
             THEN /\ StoreAndReturn(s, FlagSelf(sresult[s], sargs[s].packageName))
                  /\ UNCHANGED swork
             ELSE IF sargs[s].strategy = "metadata"
             THEN /\ Await(s, "rootfetch")
                  /\ swork' = [swork EXCEPT ![s].fetches = @ + 1]
             ELSE /\ Await(s, "mkdtemp")
                  /\ UNCHANGED swork
  /\ UNCHANGED <<sargs, svisited, sframes, stasks, stempDir, shit, sexpect,
                 salone, cleared, fsDirs, now>>

\* clearAnalysisCache() of module g
ClearCache(g) ==
  /\ ModuleInUse(g)
  /\ \E o \in Scans : spc[o] # "idle"
  /\ analysisCache' = [analysisCache EXCEPT ![g] = [k \in CacheKeys |-> NoRes]]
  /\ lastResult' = [lastResult EXCEPT ![g] = [k \in CacheKeys |-> NoRes]]
  /\ cleared' = [cleared EXCEPT ![g] = TRUE]
  /\ UNCHANGED <<spc, sargs, sresult, slist, svisited, sframes, stasks,
                 stempDir, sret, shit, sexpect, salone, swork, sfailed, fsDirs,
                 now>>

(***************************************************************************)
(* analyzePackageDependencies of dependency-analyzer.ts (metadata scan).   *)
(***************************************************************************)
\* mutant: the missing version is not recorded in the result
NotFoundResultSilent(result) == result

\* result.error = 'Package version not found'
NotFoundResult(result) == [result EXCEPT !.error = MsgNotFound]

\* the traversal state of call s as a record
TraversalOf(s) ==
  [result |-> sresult[s], visited |-> svisited[s], frames |-> sframes[s],
   tasks |-> stasks[s], fetches |-> swork[s].fetches]

\* the traversal state st becomes the state of call s; when the outermost
\* traverseDependencies call has returned the result is stored and returned,
\* and the locals of the call are gone
AfterTraversal(s, st) ==
  /\ swork' = [swork EXCEPT ![s].fetches = st.fetches]
  /\ IF st.frames[1].done
     THEN /\ StoreAndReturn(s, st.result)
          /\ svisited' = [svisited EXCEPT ![s] = {}]
          /\ sframes' = [sframes EXCEPT ![s] = <<>>]
          /\ stasks' = [stasks EXCEPT ![s] = <<>>]
     ELSE /\ spc' = [spc EXCEPT ![s] = "traversing"]
          /\ sresult' = [sresult EXCEPT ![s] = st.result]
          /\ svisited' = [svisited EXCEPT ![s] = st.visited]
          /\ sframes' = [sframes EXCEPT ![s] = st.frames]
          /\ stasks' = [stasks EXCEPT ![s] = st.tasks]
          /\ UNCHANGED <<analysisCache, sret, lastResult>>

\* `await fetchWithRetry(pkgUrl)` of the scanned package settles: the version
\* test, the merge, the check of the direct dependencies and the start of
\* the traversal
RootFetchSettled(s, outcome) ==
  /\ spc[s] = "rootfetch"
  /\ LET pkgData == DocOf(outcome, sargs[s].packageName)
     IN IF outcome = "raise"
        THEN /\ CatchError(s, MsgFetch)
             /\ Failed(s, "root")
             /\ UNCHANGED <<svisited, sframes, stasks, swork>>
        ELSE IF \/ ~pkgData.defined
                \/ ~pkgData.versions.present
                \/ sargs[s].version \notin DOMAIN pkgData.versions.map
        THEN /\ StoreAndReturn(s, NotFoundResult(sresult[s]))
             /\ Failed(s, "root")
             /\ UNCHANGED <<svisited, sframes, stasks, swork>>
        ELSE LET allDeps == AllDeps(pkgData.versions.map[sargs[s].version])
                 st0 == [TraversalOf(s) EXCEPT
                           !.result = CheckNames(@, slist[s], Keys(allDeps)),
                           !.visited = {KeyOf(sargs[s])}]
             IN /\ \E st1 \in {TraverseDependencies(st0, slist[s], allDeps,
                                                       0, 0)} :
                     \E st \in {Settle(st1, slist[s])} : AfterTraversal(s, st)
                /\ UNCHANGED sfailed
  /\ UNCHANGED <<sargs, slist, stempDir, shit, sexpect, salone, cleared,
                 fsDirs, now>>

\* `await fetchWithRetry(depUrl)` of batch callback t settles
DepFetchSettled(s, t, outcome) ==
  /\ spc[s] = "traversing"
  /\ t \in DOMAIN stasks[s]
  /\ stasks[s][t].state = "fetch"
  /\ outcome \in OutcomesFor(stasks[s][t].depName)
  /\ \E st0 \in {AfterDepFetch(TraversalOf(s), slist[s], t, outcome)} :
       \E st \in {Settle(st0, slist[s])} : AfterTraversal(s, st)
  /\ IF outcome = "data" THEN UNCHANGED sfailed
     ELSE Failed(s, DepFailure(stasks[s][t].depName))
  /\ UNCHANGED <<sargs, slist, stempDir, shit, sexpect, salone, cleared,
                 fsDirs, now>>

(***************************************************************************)
(* getInstalledPackages of the sandbox module.                             *)
(***************************************************************************)
\* a directory entry that is not a directory
File(name) ==
  [name |-> name, isDirectory |-> FALSE, entries |-> <<>>, hasNM |-> FALSE,
   nm |-> <<>>]
\* a package directory, with or without a nested node_modules
Pkg(name, hasNM, nm) ==
  [name |-> name, isDirectory |-> TRUE, entries |-> <<>>, hasNM |-> hasNM,
   nm |-> nm]
\* a scope directory and its entries
ScopeDir(name, entries) ==
  [name |-> name, isDirectory |-> TRUE, entries |-> entries, hasNM |-> FALSE,
   nm |-> <<>>]

\* what yarn leaves in node_modules for a package
InstalledTree(packageName) ==
  IF packageName = "plugin"
  THEN << File(".yarn-integrity"),
          Pkg(".bin", FALSE, <<>>),
          Pkg("plugin", TRUE,
              << Pkg("canvas", FALSE, <<>>),
                 ScopeDir("@koishijs", << Pkg("core", FALSE, <<>>) >>) >>),
          ScopeDir("@koishijs",
                   << File("README"), Pkg("core", FALSE, <<>>),
                      Pkg("utils", TRUE, << Pkg("evil", FALSE, <<>>) >>) >>),
          Pkg("lib", FALSE, <<>>),
          Pkg("puppeteer", FALSE, <<>>) >>
  ELSE IF packageName = "evil"
  THEN << Pkg("evil", FALSE, <<>>), Pkg("puppeteer", FALSE, <<>>) >>
  ELSE << Pkg(packageName, FALSE, <<>>) >>

\* path.join(a, b)
Join(a, b) == a \o "/" \o b

\* name.startsWith(prefix)
StartsWith(name, prefix) ==
  Len(name) >= Len(prefix) /\ SubSeq(name, 1, Len(prefix)) = prefix

\* mutant: the name is added without regard to what the Set holds
SetAddAgain(packages, name) == Append(packages, name)

\* packages.add(name) on a Set that keeps insertion order
SetAdd(packages, name) ==
  IF \E k \in DOMAIN packages : packages[k] = name THEN packages
  ELSE Append(packages, name)

\* the sets of directories whose readdir fails during one enumeration
UnreadableChoices ==
  { {},
    {Join("node_modules", "@koishijs")},
    {Join(Join("node_modules", "plugin"), "node_modules")} }

\* mutant: the catch block returns an empty array
CatchReadErrorEmpty(packages) == <<>>

\* catch (error): the failure is logged and what has been collected is
\* returned
CatchReadError(packages) == packages

RECURSIVE GetInstalledPackages(_, _, _, _)
RECURSIVE EntriesLoop(_, _, _, _)
RECURSIVE ScopedLoop(_, _, _, _)

\* the loop over the entries of a scope directory
ScopedLoop(scopePath, scopedEntries, packages, unreadable) ==
  IF scopedEntries = <<>> THEN packages
  ELSE LET scopedEntry == Head(scopedEntries)
       IN IF scopedEntry.isDirectory
          THEN LET added == SetAdd(packages,
                                   Join(scopePath.name, scopedEntry.name))
                   nested == Join(Join(scopePath.path, scopedEntry.name),
                                  "node_modules")
                   after == IF scopedEntry.hasNM
                            THEN GetInstalledPackages(nested, scopedEntry.nm,
                                                      added, unreadable)
                            ELSE added
               IN ScopedLoop(scopePath, Tail(scopedEntries), after, unreadable)
          ELSE ScopedLoop(scopePath, Tail(scopedEntries), packages, unreadable)

\* the loop over the entries of a node_modules directory; a failing readdir
\* of a scope directory ends the loop through the outer catch
EntriesLoop(nodeModulesPath, entries, packages, unreadable) ==
  IF entries = <<>> THEN packages
  ELSE LET entry == Head(entries)
       IN IF ~entry.isDirectory
          THEN EntriesLoop(nodeModulesPath, Tail(entries), packages, unreadable)
          ELSE IF StartsWith(entry.name, "@")
          THEN LET scopePath == Join(nodeModulesPath, entry.name)
               IN IF scopePath \in unreadable THEN CatchReadError(packages)
                  ELSE EntriesLoop(nodeModulesPath, Tail(entries),
                         ScopedLoop([path |-> scopePath, name |-> entry.name],
                                    entry.entries, packages, unreadable),
                         unreadable)
          ELSE IF entry.name # ".bin" /\ entry.name # ".yarn-integrity"
          THEN LET added == SetAdd(packages, entry.name)
                   nested == Join(Join(nodeModulesPath, entry.name),
                                  "node_modules")
                   after == IF entry.hasNM
                            THEN GetInstalledPackages(nested, entry.nm, added,
                                                      unreadable)
                            ELSE added
               IN EntriesLoop(nodeModulesPath, Tail(entries), after, unreadable)
          ELSE EntriesLoop(nodeModulesPath, Tail(entries), packages, unreadable)

\* getInstalledPackages(nodeModulesPath, packages), for a directory with
\* the given entries: a failing readdir returns what has been collected
GetInstalledPackages(nodeModulesPath, entries, packages, unreadable) ==
  IF nodeModulesPath \in unreadable THEN CatchReadError(packages)
  ELSE EntriesLoop(nodeModulesPath, entries, packages, unreadable)

(***************************************************************************)
(* getInstalledPackages called on its own, on each tree of a family.       *)
(***************************************************************************)
\* the longest node_modules listing of the family
MaxEntries == 2

\* the entries a node_modules directory of the family is made of: files,
\* the two names yarn puts next to the packages, packages without and with
\* nested node_modules (to a depth of three), and a scope directory that
\* holds a file, a package and a package with its own node_modules
EntryPool ==
  { File("README"),
    File(".yarn-integrity"),
    Pkg(".bin", FALSE, <<>>),
    Pkg("a", FALSE, <<>>),
    Pkg("b", TRUE, << Pkg("a", FALSE, <<>>) >>),
    Pkg("c", TRUE,
        << Pkg("d", TRUE,
               << Pkg("a", FALSE, <<>>),
                  ScopeDir("@s", << Pkg("x", FALSE, <<>>) >>) >>) >>),
    ScopeDir("@s",
             << File("LICENSE"), Pkg("x", FALSE, <<>>),
                Pkg("y", TRUE, << Pkg("e", FALSE, <<>>) >>) >>) }

\* the listings: up to MaxEntries entries with different names
Trees ==
  {t \in UNION {[1..n -> EntryPool] : n \in 0..MaxEntries} :
     \A j, k \in DOMAIN t : t[j].name = t[k].name => j = k}

\* the directories whose readdir may fail
EnumUnreadable ==
  { {}, {"node_modules"}, {Join("node_modules", "@s")},
    {Join(Join("node_modules", "c"), "node_modules")} }

EnumInit ==
  /\ epc = "idle"
  /\ etree = <<>>
  /\ eunreadable = {}
  /\ ereturned = <<>>

\* getInstalledPackages(nodeModulesPath) is called on a tree
EnumCall(tree, unreadable) ==
  /\ epc = "idle"
  /\ epc' = "reading"
  /\ etree' = tree
  /\ eunreadable' = unreadable
  /\ UNCHANGED ereturned

\* the call returns Array.from(packages)
EnumReturn ==
  /\ epc = "reading"
  /\ epc' = "returned"
  /\ ereturned' = GetInstalledPackages("node_modules", etree, <<>>,
                                       eunreadable)
  /\ UNCHANGED <<etree, eunreadable>>

NextEnum ==
  \/ \E tree \in Trees, unreadable \in EnumUnreadable :
       EnumCall(tree, unreadable) /\ UNCHANGED <<fetchVars, scanVars, known>>
  \/ EnumReturn /\ UNCHANGED <<fetchVars, scanVars, known>>

(***************************************************************************)
(* analyzePackageDependencies of the sandbox module.                       *)
(***************************************************************************)
\* mutant: one fixed directory for every call
FreshDirFixed == CHOOSE d \in TmpNames : \A e \in TmpNames : d <= e

\* the name mkdtemp gives to a new directory: one that does not exist
FreshDir == CHOOSE d \in TmpNames :
              /\ ~fsDirs[d].exists
              /\ \A e \in TmpNames : ~fsDirs[e].exists => d <= e

\* `await fs.mkdtemp(...)` settles
MkdtempSettled(s, ok) ==
  /\ spc[s] = "mkdtemp"
  /\ IF ok
     THEN /\ stempDir' = [stempDir EXCEPT ![s] = FreshDir]
          /\ fsDirs' = [fsDirs EXCEPT ![FreshDir] = DirState(TRUE, s, FALSE, "")]
          /\ Await(s, "write")
          /\ UNCHANGED sfailed
     ELSE /\ CatchError(s, MsgMkdtemp)
          /\ Failed(s, "mkdtemp")
          /\ UNCHANGED <<stempDir, fsDirs>>
  /\ UNCHANGED <<sargs, slist, svisited, sframes, stasks, shit, sexpect,
                 salone, swork, cleared, now>>

\* `await fs.writeFile(package.json)` settles; on success yarn is started
WriteSettled(s, ok) ==
  /\ spc[s] = "write"
  /\ IF ok
     THEN /\ fsDirs' = [fsDirs EXCEPT ![stempDir[s]].written = TRUE]
          /\ swork' = [swork EXCEPT ![s].installs = @ + 1]
          /\ Await(s, "install")
          /\ UNCHANGED sfailed
     ELSE /\ CatchError(s, MsgWrite)
          /\ Failed(s, "write")
          /\ UNCHANGED <<fsDirs, swork>>
  /\ UNCHANGED <<sargs, slist, svisited, sframes, stasks, stempDir, shit,
                 sexpect, salone, cleared, now>>

\* how `yarn install` can end: with node_modules filled, without a
\* node_modules directory, or with a non-zero exit or the timeout
InstallOutcomes(args) ==
  IF args.packageName \in DOMAIN Registry
     /\ args.version \in DOMAIN Registry[args.packageName].versions.map
  THEN {"installed", "empty", "fail"}
  ELSE {"fail"}

\* mutant: the failed install is ignored and the scan goes on
CatchInstallErrorGoesOn(s) == Await(s, "access")

\* catch (installError): result.error is set, the result is stored and
\* returned
CatchInstallError(s) ==
  StoreAndReturn(s, [sresult[s] EXCEPT !.error = MsgInstall])

\* `await execFileAsync('yarn', ...)` settles
InstallSettled(s, outcome) ==
  /\ spc[s] = "install"
  /\ outcome \in InstallOutcomes(sargs[s])
  /\ IF outcome = "fail"
     THEN /\ CatchInstallError(s)
          /\ Failed(s, "install")
          /\ UNCHANGED fsDirs
     ELSE /\ fsDirs' = [fsDirs EXCEPT ![stempDir[s]].installed =
               IF outcome = "installed" THEN sargs[s].packageName ELSE ""]
          /\ Await(s, "access")
          /\ UNCHANGED sfailed
  /\ UNCHANGED <<sargs, slist, svisited, sframes, stasks, stempDir, shit,
                 sexpect, salone, swork, cleared, now>>

\* `await fs.access(nodeModulesPath)` settles
AccessSettled(s) ==
  /\ spc[s] = "access"
  /\ IF fsDirs[stempDir[s]].installed = ""
     THEN StoreAndReturn(s, sresult[s])
     ELSE Await(s, "enumerate")
  /\ UNCHANGED <<sargs, slist, svisited, sframes, stasks, stempDir, shit,
                 sexpect, salone, swork, sfailed, cleared, fsDirs, now>>

\* `await getInstalledPackages(nodeModulesPath)` settles, followed by the
\* check of every installed name
EnumerateSettled(s, unreadable) ==
  /\ spc[s] = "enumerate"
  /\ LET installedPackages ==
           GetInstalledPackages("node_modules",
                                InstalledTree(fsDirs[stempDir[s]].installed),
                                <<>>, unreadable)
     IN StoreAndReturn(s, CheckNames(sresult[s], slist[s], installedPackages))
  /\ IF unreadable = {} THEN UNCHANGED sfailed
     ELSE sfailed' = [sfailed EXCEPT ![s] = @ \cup {"enumerate"} \cup unreadable]
  /\ UNCHANGED <<sargs, slist, svisited, sframes, stasks, stempDir, shit,
                 sexpect, salone, swork, cleared, fsDirs, now>>

\* mutant: the removal leaves the directory in place
RmNothing(dirs, d) == dirs

\* fs.rm(tempDir, { recursive: true, force: true }) has succeeded
Rm(dirs, d) == [dirs EXCEPT ![d] = NoDirState]

\* mutant: the failure of the removal leaves the call
CatchCleanupErrorRethrows(s) ==
  /\ spc' = [spc EXCEPT ![s] = "raised"]
  /\ UNCHANGED <<sret, lastResult>>

\* catch (cleanupError): the failure is logged and the pending return goes on
CatchCleanupError(s) == Return(s, sresult[s])

\* the finally block: `await fs.rm(tempDir, ...)` settles, a failure is
\* logged, and the result goes to the caller
CleanupSettled(s, ok) ==
  /\ spc[s] = "cleanup"
  /\ fsDirs' = IF ok THEN Rm(fsDirs, stempDir[s]) ELSE fsDirs
  /\ IF ok THEN Return(s, sresult[s]) ELSE CatchCleanupError(s)
  /\ IF ok THEN UNCHANGED sfailed ELSE Failed(s, "cleanup")
  /\ UNCHANGED <<sargs, sresult, slist, svisited, sframes, stasks, stempDir,
                 shit, sexpect, salone, swork, analysisCache, cleared, now>>

(***************************************************************************)
(* Specification of the scanners.                                          *)
(***************************************************************************)
\* the state after the modules have been loaded
Init ==
  /\ FetchInit
  /\ ScanInit
  /\ EnumInit
  /\ known = ExternalList

NextScan ==
  \/ \E s \in Scans, g \in Strategies, id \in Identities :
       AnalyzeCall(s, g, id) /\ UNCHANGED <<fetchVars, enumVars, known>>
  \/ \E s \in Scans, outcome \in LoadOutcomes :
       LoadSettled(s, outcome) /\ UNCHANGED <<fetchVars, enumVars, known>>
  \/ \E s \in Scans, outcome \in FetchOutcomes :
       RootFetchSettled(s, outcome) /\ UNCHANGED <<fetchVars, enumVars, known>>
  \/ \E s \in Scans : \E t \in DOMAIN stasks[s], outcome \in FetchOutcomes :
       DepFetchSettled(s, t, outcome) /\ UNCHANGED <<fetchVars, enumVars, known>>
  \/ \E s \in Scans, ok \in BOOLEAN :
       MkdtempSettled(s, ok) /\ UNCHANGED <<fetchVars, enumVars, known>>
  \/ \E s \in Scans, ok \in BOOLEAN :
       WriteSettled(s, ok) /\ UNCHANGED <<fetchVars, enumVars, known>>
  \/ \E s \in Scans, outcome \in {"installed", "empty", "fail"} :
       InstallSettled(s, outcome) /\ UNCHANGED <<fetchVars, enumVars, known>>
  \/ \E s \in Scans : AccessSettled(s) /\ UNCHANGED <<fetchVars, enumVars, known>>
  \/ \E s \in Scans, unreadable \in UnreadableChoices :
       EnumerateSettled(s, unreadable) /\ UNCHANGED <<fetchVars, enumVars, known>>
  \/ \E s \in Scans, ok \in BOOLEAN :
       CleanupSettled(s, ok) /\ UNCHANGED <<fetchVars, enumVars, known>>

SpecScan == Init /\ [][NextScan]_vars

\* getInstalledPackages alone
SpecEnum == Init /\ [][NextEnum]_vars

(***************************************************************************)
(* Specifications of the metadata traversal: one scan of one of the        *)
(* graphs of the registry, and two overlapping scans of the same graph.    *)
(***************************************************************************)
\* the awaited operations of metadata scan s settle
ScanSettles(s) ==
  \/ \E outcome \in LoadOutcomes : LoadSettled(s, outcome)
  \/ \E outcome \in FetchOutcomes : RootFetchSettled(s, outcome)
  \/ \E t \in DOMAIN stasks[s], outcome \in FetchOutcomes :
       DepFetchSettled(s, t, outcome)

NextGraph ==
  \/ \E id \in GraphIdentities :
       AnalyzeCall(1, "metadata", id) /\ UNCHANGED <<fetchVars, enumVars, known>>
  \/ \E outcome \in LoadOutcomes :
       LoadSettled(1, outcome) /\ UNCHANGED <<fetchVars, enumVars, known>>
  \/ \E outcome \in FetchOutcomes :
       RootFetchSettled(1, outcome) /\ UNCHANGED <<fetchVars, enumVars, known>>
  \/ \E t \in DOMAIN stasks[1], outcome \in FetchOutcomes :
       DepFetchSettled(1, t, outcome) /\ UNCHANGED <<fetchVars, enumVars, known>>

SpecGraph == Init /\ [][NextGraph]_vars

\* every load and every fetch of the scan eventually settles
SpecGraphLive == SpecGraph /\ WF_vars(ScanSettles(1) /\ UNCHANGED <<fetchVars, enumVars, known>>)

\* two metadata scans of the graph in which one package is reached by a
\* short and by a long path; the calls may overlap
PairIdentities == {<<"race", "1.0.0">>}

NextPair ==
  \/ \E s \in {1, 2}, id \in PairIdentities :
       AnalyzeCall(s, "metadata", id) /\ UNCHANGED <<fetchVars, enumVars, known>>
  \/ \E s \in {1, 2}, outcome \in LoadOutcomes :
       LoadSettled(s, outcome) /\ UNCHANGED <<fetchVars, enumVars, known>>
  \/ \E s \in {1, 2}, outcome \in FetchOutcomes :
       RootFetchSettled(s, outcome) /\ UNCHANGED <<fetchVars, enumVars, known>>
  \/ \E s \in {1, 2} : \E t \in DOMAIN stasks[s], outcome \in FetchOutcomes :
       DepFetchSettled(s, t, outcome) /\ UNCHANGED <<fetchVars, enumVars, known>>

SpecPair == Init /\ [][NextPair]_vars

(***************************************************************************)
(* Specification of the enumeration within the sandbox scanner: scans of   *)
(* one package, installed with success, whose node_modules has nested and  *)
(* scoped directories, any one of which may fail to be read.               *)
(***************************************************************************)
SandboxIdentity == <<"plugin", "1.0.0">>

\* the directories getInstalledPackages reads in the tree of the package
SandboxDirs ==
  { "node_modules",
    Join("node_modules", "@koishijs"),
    Join(Join("node_modules", "plugin"), "node_modules"),
    Join(Join(Join("node_modules", "plugin"), "node_modules"), "@koishijs"),
    Join(Join(Join("node_modules", "@koishijs"), "utils"), "node_modules") }

\* no read fails, or the read of one directory does
SandboxUnreadable == {{}} \cup {{d} : d \in SandboxDirs}

NextSandbox ==
  \/ \E s \in Scans :
       AnalyzeCall(s, "sandbox", SandboxIdentity) /\ UNCHANGED <<fetchVars, enumVars, known>>
  \/ \E s \in Scans :
       LoadSettled(s, "list") /\ UNCHANGED <<fetchVars, enumVars, known>>
  \/ \E s \in Scans :
       MkdtempSettled(s, TRUE) /\ UNCHANGED <<fetchVars, enumVars, known>>
  \/ \E s \in Scans :
       WriteSettled(s, TRUE) /\ UNCHANGED <<fetchVars, enumVars, known>>
  \/ \E s \in Scans :
       InstallSettled(s, "installed") /\ UNCHANGED <<fetchVars, enumVars, known>>
  \/ \E s \in Scans : AccessSettled(s) /\ UNCHANGED <<fetchVars, enumVars, known>>
  \/ \E s \in Scans, unreadable \in SandboxUnreadable :
       EnumerateSettled(s, unreadable) /\ UNCHANGED <<fetchVars, enumVars, known>>
  \/ \E s \in Scans, ok \in BOOLEAN :
       CleanupSettled(s, ok) /\ UNCHANGED <<fetchVars, enumVars, known>>

SpecSandbox == Init /\ [][NextSandbox]_vars

(***************************************************************************)
(* Specification of the cache: calls for one identity, made one after the  *)
(* other or overlapping, a refresh of the deny-list and                    *)
(* clearAnalysisCache().                                                   *)
(***************************************************************************)
\* the calls made in one behaviour
MaxClock == 3

\* the identity scanned: a -> b -> a
CacheIdentity == <<"a", "1.0.0">>

\* the deny-list after its refresh: a dependency of the scanned package has
\* been added
RefreshedList == ExternalList \cup {"b"}

\* getAnalysisCacheSize()
CacheSize(cache) == Cardinality({k \in CacheKeys : CacheHas(cache, k)})

\* the deny-list is refreshed
RefreshList ==
  /\ known = ExternalList
  /\ known' = RefreshedList
  /\ UNCHANGED <<fetchVars, scanVars, enumVars>>

\* the caller has taken the result of call s: the model uses s for a later
\* call
Forget(s) ==
  /\ spc[s] = "done"
  /\ spc' = [spc EXCEPT ![s] = "idle"]
  /\ sargs' = [sargs EXCEPT ![s] = NoScanArgs]
  /\ sresult' = [sresult EXCEPT ![s] = NoRes]
  /\ slist' = [slist EXCEPT ![s] = {}]
  /\ sret' = [sret EXCEPT ![s] = NoRes]
  /\ shit' = [shit EXCEPT ![s] = FALSE]
  /\ sexpect' = [sexpect EXCEPT ![s] = NoRes]
  /\ salone' = [salone EXCEPT ![s] = TRUE]
  /\ swork' = [swork EXCEPT ![s] = NoWork]
  /\ sfailed' = [sfailed EXCEPT ![s] = {}]
  /\ UNCHANGED <<svisited, sframes, stasks, stempDir, analysisCache,
                 lastResult, cleared, fsDirs, now>>

\* the caller follows the documented order: the cache is cleared once the
\* deny-list has been refreshed, here when the identity is in the cache
NextCache ==
  \/ \E s \in Scans :
       /\ now < MaxClock
       /\ AnalyzeCall(s, "metadata", CacheIdentity)
       /\ UNCHANGED <<fetchVars, enumVars, known>>
  \/ \E s \in Scans :
       LoadSettled(s, "list") /\ UNCHANGED <<fetchVars, enumVars, known>>
  \/ \E s \in Scans :
       RootFetchSettled(s, "data") /\ UNCHANGED <<fetchVars, enumVars, known>>
  \/ \E s \in Scans : \E t \in DOMAIN stasks[s] :
       DepFetchSettled(s, t, "data") /\ UNCHANGED <<fetchVars, enumVars, known>>
  \/ RefreshList
  \/ /\ known = RefreshedList
     /\ CacheHas(analysisCache["metadata"],
                 CacheKey(CacheIdentity[1], CacheIdentity[2]))
     /\ ClearCache("metadata")
     /\ UNCHANGED <<fetchVars, enumVars, known>>
  \/ \E s \in Scans : Forget(s) /\ UNCHANGED <<fetchVars, enumVars, known>>

SpecCache == Init /\ [][NextCache]_vars

(***************************************************************************)
(* Properties of the scanners.                                             *)
(***************************************************************************)
\* the built-in unsafe names the manifest of the scanned version declares
DirectUnsafe(args) ==
  IF args.packageName \in DOMAIN Registry
     /\ args.version \in DOMAIN Registry[args.packageName].versions.map
  THEN LET names == Keys(AllDeps(
                      Registry[args.packageName].versions.map[args.version]))
       IN {names[k] : k \in DOMAIN names} \cap UNSAFE_DEPENDENCIES
  ELSE {}

\* the call has returned, and not from the cache check
Scanned(s) == spc[s] = "done" /\ ~shit[s]

\* the failures that end a scan
ScanLevelFailures == {"load", "root", "mkdtemp", "write", "install"}

\* the call has fetched metadata or started an install
Worked(s) == swork[s].fetches + swork[s].installs > 0

\* C7: when the load of the external deny-list fails (it raises or yields
\* nothing), a metadata scan of a package whose manifest directly depends on
\* a built-in unsafe name still returns isInsecure = true with exactly that
\* name in insecurePackages
C7_BuiltInCheckedWithoutList ==
  \A s \in Scans :
    ( /\ Scanned(s)
      /\ sargs[s].strategy = "metadata"
      /\ "load" \in sfailed[s]
      /\ DirectUnsafe(sargs[s]) = {"puppeteer"} )
    => /\ sret[s].isInsecure
       /\ sret[s].insecurePackages = <<"puppeteer">>

\* C8: with either strategy analyzePackageDependencies never raises: whatever
\* fails (deny-list load, root fetch, dependency fetch, mkdtemp, manifest
\* write, install, enumeration, cleanup), a call that has ended has returned
\* an AnalysisResult, with error set when the scan itself failed
C8_NeverRaises ==
  \A s \in Scans :
    /\ spc[s] # "raised"
    /\ spc[s] = "done" =>
         /\ sret[s].analyzedAt \in 1..now
         /\ sret[s].isInsecure \in BOOLEAN
         /\ (sfailed[s] \cap ScanLevelFailures # {} => sret[s].error # "")

\* a scan has failed and returned its result, and the scan of another
\* package has run to its end without a failure
C8_Witness ==
  \E s, o \in Scans :
    /\ Scanned(s) /\ Scanned(o)
    /\ sargs[s].packageName # sargs[o].packageName
    /\ sfailed[s] \cap ScanLevelFailures # {}
    /\ sret[s].error # ""
    /\ sfailed[o] = {}
    /\ sret[o].error = ""

\* C9: a call made after an earlier call for the same (name, version) has
\* completed returns a result identical to that of the earlier call (same
\* isInsecure, insecurePackages, analyzedAt and error) and starts no
\* deny-list load, no fetch and no install
C9_SecondCallIdentical ==
  \A s \in Scans :
    (spc[s] # "idle" /\ sexpect[s] # NoRes) =>
      /\ spc[s] = "done"
      /\ sret[s] = sexpect[s]
      /\ swork[s] = NoWork

\* a second call for an identity has returned the result of the first, which
\* was the outcome of a scan that did its work and found an unsafe dependency
C9_Witness ==
  \E s, o \in Scans :
    /\ o < s
    /\ sargs[o] = sargs[s]
    /\ Scanned(o) /\ Worked(o)
    /\ spc[s] = "done" /\ shit[s]
    /\ sexpect[s] = sret[o]
    /\ sret[s] = sret[o]
    /\ sret[o].isInsecure

\* C10: for every interleaving of the calls for one (name, version), those
\* started while an earlier one is in progress included, the analysis work
\* (metadata fetches or install) is done by one call only and one
\* AnalysisResult is produced for the identity
C10_WorkExactlyOnce ==
  \A a, b \in Scans :
    ( /\ a # b
      /\ spc[a] # "idle" /\ spc[b] # "idle"
      /\ sargs[a] = sargs[b] )
    => /\ ~(Worked(a) /\ Worked(b))
       /\ (spc[a] = "done" /\ spc[b] = "done" => sret[a] = sret[b])

(***************************************************************************)
(* Properties of the metadata traversal.                                   *)
(***************************************************************************)
\* the names the latest manifest of package n declares, in any section
DeclaredBy(n) ==
  IF n \in DOMAIN Registry
  THEN LET names == Keys(AllDeps(
                      Registry[n].versions.map[Registry[n].distTags.latest]))
       IN {names[k] : k \in DOMAIN names}
  ELSE {}

\* the packages reached from those of S by a path of at most k edges
RECURSIVE Within(_, _)
Within(S, k) ==
  IF k = 0 THEN S
  ELSE Within(S \cup UNION {DeclaredBy(n) : n \in S}, k - 1)

\* the batch callbacks of call s whose metadata fetch is in flight
InFlight(s) == {t \in DOMAIN stasks[s] : stasks[s][t].state = "fetch"}

\* the scan of call s has ended after its root fetch gave the manifest
Traversed(s) ==
  /\ Scanned(s)
  /\ sfailed[s] \cap ScanLevelFailures = {}
  /\ sargs[s].packageName \notin ExternalList

\* C11: a metadata scan fetches the metadata of a dependency only when the
\* dependency is reached from the scanned package by a path of at most 3
\* edges, whatever the depth of the graph and the order in which the fetches
\* complete
C11_DepthBound ==
  \A s \in Scans : \A t \in InFlight(s) :
    stasks[s][t].depName \in Within({sargs[s].packageName}, 3)

\* the scan of the chain d0 -> ... -> d5 has ended after fetching d0, d1, d2
\* and d3, with every fetch successful
C11_Witness ==
  /\ Traversed(1)
  /\ sargs[1].packageName = "d0"
  /\ sfailed[1] = {}
  /\ swork[1].fetches = 4

\* the keys name@range of the dependencies the latest manifest of n declares
EdgeKeys(n) ==
  IF n \in DOMAIN Registry
  THEN LET deps == AllDeps(
                     Registry[n].versions.map[Registry[n].distTags.latest])
       IN {DepKey(deps[k]) : k \in DOMAIN deps}
  ELSE {}

\* one fetch for the scanned package and one for every dependency key met
\* within the depth bound
FetchBound(root) ==
  1 + Cardinality(UNION {EdgeKeys(n) : n \in Within({root}, 3)})

\* C12: on every graph, cycles and self-dependencies included, a metadata
\* scan whose fetches all complete ends and returns a result, and the
\* number of fetches it issues stays within one per dependency key
C12_CycleSafe ==
  /\ [](\A s \in Scans : swork[s].fetches <= FetchBound(sargs[s].packageName))
  /\ (spc[1] # "idle") ~> (spc[1] = "done" /\ sret[1].analyzedAt >= 1)

\* the scan of the cycle a -> b -> a has ended after fetching a, b and a
\* again, with every fetch successful
C12_Witness ==
  /\ Traversed(1)
  /\ sargs[1].packageName = "a"
  /\ sfailed[1] = {}
  /\ swork[1].fetches = 3

\* the scanned package's own name and the names its requested version
\* declares directly, in any section
OwnAndDirect(args) ==
  {args.packageName} \cup
  ( IF args.packageName \in DOMAIN Registry
       /\ args.version \in DOMAIN Registry[args.packageName].versions.map
    THEN LET names == Keys(AllDeps(
                        Registry[args.packageName].versions.map[args.version]))
         IN {names[k] : k \in DOMAIN names}
    ELSE {} )

\* the metadata scan has returned a result of its own, with the deny-list
\* loaded and the manifest of the requested version found
Completed(s) ==
  /\ Scanned(s)
  /\ sargs[s].strategy = "metadata"
  /\ sfailed[s] \cap ScanLevelFailures = {}

\* C13: in a metadata scan the scanned package's own name and every direct
\* dependency name are checked against both the built-in unsafe set and the
\* external deny-list: each such name that is in either set is in
\* insecurePackages of the returned result, and isInsecure is true
C13_OwnAndDirectChecked ==
  \A s \in Scans :
    Completed(s) =>
      \A n \in OwnAndDirect(sargs[s]) \cap (UNSAFE_DEPENDENCIES \cup slist[s]) :
        sret[s].isInsecure /\ IncludesName(sret[s].insecurePackages, n)

\* C14: the traversal considers the merge of the three dependency sections
\* of every manifest it examines: when every fetch succeeds, a deny-listed
\* name declared in any section of the root's manifest or of the manifest of
\* a direct dependency is in insecurePackages of the returned result
C14_AllSectionsConsidered ==
  \A s \in Scans :
    (Traversed(s) /\ sargs[s].strategy = "metadata" /\ sfailed[s] = {}) =>
      \A m \in OwnAndDirect(sargs[s]) :
        \A d \in DeclaredBy(m) \cap (UNSAFE_DEPENDENCIES \cup slist[s]) :
          IncludesName(sret[s].insecurePackages, d)

\* the names the `dependencies` section of the latest manifest of n declares
NestedOf(n) ==
  IF n \in DOMAIN Registry
  THEN LET names == Keys(NestedDeps(
                      Registry[n].versions.map[Registry[n].distTags.latest]))
       IN {names[k] : k \in DOMAIN names}
  ELSE {}

\* the names reached from the names S by at most k further edges of the
\* kind the traversal follows
RECURSIVE Follow(_, _)
Follow(S, k) ==
  IF k = 0 THEN S ELSE Follow(S \cup UNION {NestedOf(n) : n \in S}, k - 1)

\* the names at most 3 edges away from the scanned package: its direct
\* dependencies and what they reach in two more edges
Reachable3(args) == Follow(OwnAndDirect(args) \ {args.packageName}, 2)

\* C15: when every metadata fetch succeeds, every name reachable from the
\* root by a dependency path of at most 3 edges is checked, whatever the
\* order in which the fetches complete: a deny-listed name at distance <= 3
\* is in insecurePackages of the returned result
C15_TransitiveCoverage ==
  \A s \in Scans :
    (Traversed(s) /\ sargs[s].strategy = "metadata" /\ sfailed[s] = {}) =>
      \A d \in Reachable3(sargs[s]) \cap (UNSAFE_DEPENDENCIES \cup slist[s]) :
        IncludesName(sret[s].insecurePackages, d)

\* C16: with the same deny-list and every fetch successful, two metadata
\* scans of the same identity return the same isInsecure and the same
\* insecurePackages, whatever the order in which their fetches complete
C16_Deterministic ==
  \A a, b \in Scans :
    ( /\ Completed(a) /\ Completed(b)
      /\ sargs[a] = sargs[b]
      /\ slist[a] = slist[b]
      /\ sfailed[a] = {} /\ sfailed[b] = {} )
    => /\ sret[a].isInsecure = sret[b].isInsecure
       /\ sret[a].insecurePackages = sret[b].insecurePackages

\* the direct dependencies of the scanned package whose fetch has failed
FailedDirect(s) ==
  {m \in OwnAndDirect(sargs[s]) \ {sargs[s].packageName} :
     DepFailure(m) \in sfailed[s]}

\* C17: a failed metadata fetch of a dependency (it raises, or yields no
\* usable data) skips the subtree of that dependency only: the scan returns
\* without an error, and the dependencies of every sibling whose own fetch
\* has succeeded, in the same batch or a later one, are still checked
C17_ErrorIsolation ==
  \A s \in Scans :
    (Traversed(s) /\ sargs[s].strategy = "metadata") =>
      /\ sret[s].error = ""
      /\ \A m \in (OwnAndDirect(sargs[s]) \ {sargs[s].packageName})
                     \ FailedDirect(s) :
           \A d \in NestedOf(m) \cap (UNSAFE_DEPENDENCIES \cup slist[s]) :
             IncludesName(sret[s].insecurePackages, d)

\* the scan of `big` has ended: the fetches of its first batch have failed,
\* one of them by raising, the library of the second batch was fetched and
\* its deny-listed dependency is reported
C17_Witness ==
  /\ Traversed(1)
  /\ sargs[1].packageName = "big"
  /\ DepFailure("x1") \in sfailed[1]
  /\ DepFailure("lib") \notin sfailed[1]
  /\ IncludesName(sret[1].insecurePackages, "evil")
  /\ sret[1].error = ""

\* the metadata scan has returned after fetching the metadata of a package
\* that has no manifest for the requested version
VersionAbsent(s) ==
  /\ Scanned(s)
  /\ sargs[s].strategy = "metadata"
  /\ "load" \notin sfailed[s]
  /\ sargs[s].packageName \notin slist[s]
  /\ sargs[s].packageName \in DOMAIN Registry
  /\ sargs[s].version \notin DOMAIN Registry[sargs[s].packageName].versions.map
  /\ sret[s].error # MsgFetch

\* C18: when the registry metadata has no manifest for the requested
\* version, the metadata scan returns error = "Package version not found",
\* isInsecure = false and an empty insecurePackages, and has fetched nothing
\* but the metadata of the scanned package
C18_VersionNotFound ==
  \A s \in Scans :
    VersionAbsent(s) =>
      /\ sret[s].error = "Package version not found"
      /\ ~sret[s].isInsecure
      /\ sret[s].insecurePackages = <<>>
      /\ swork[s].fetches = 1

\* the statement with the error text "version not found"
C18_ErrorTextAsStated ==
  \A s \in Scans :
    VersionAbsent(s) =>
      /\ sret[s].error = "version not found"
      /\ ~sret[s].isInsecure
      /\ sret[s].insecurePackages = <<>>
      /\ swork[s].fetches = 1

\* the scan of plugin@9.9.9, a version that was never published, has ended
\* with the error
C18_Witness ==
  /\ VersionAbsent(1)
  /\ sargs[1].version = "9.9.9"
  /\ sret[1].error = "Package version not found"
  /\ swork[1].fetches = 1

\* currentDepth of the traverseDependencies call that runs callback t
TaskDepth(s, t) == sframes[s][stasks[s][t].frame].currentDepth

\* C19: the levels of the traversal run one after the other: no fetch for a
\* dependency at depth d+1 is in flight while a fetch for a dependency at
\* depth d has not completed
C19_LevelsSequential ==
  \A s \in Scans :
    \A t, u \in InFlight(s) : TaskDepth(s, t) = TaskDepth(s, u)

\* C20: at every moment at most batchSize dependency-metadata fetches of one
\* metadata scan are in flight
C20_InFlightBounded ==
  \A s \in Scans : Cardinality(InFlight(s)) <= 10

\* the key of the dependency callback t handles
TaskKey(s, t) ==
  DepKey(Dep(stasks[s][t].depName, stasks[s][t].versionRange))

\* C21: within one metadata scan at most one fetch is issued for each key
\* name@range, for every interleaving of the concurrent callbacks: the
\* fetches still pending have different keys, and the scan has issued one
\* fetch for the scanned package and one for each key of the visited set
C21_OneFetchPerKey ==
  \A s \in Scans :
    spc[s] = "traversing" =>
      /\ \A t, u \in InFlight(s) : TaskKey(s, t) = TaskKey(s, u) => t = u
      /\ swork[s].fetches = Cardinality(svisited[s])

\* in the scan of `race` two callbacks of different calls have met rx, and
\* one fetch of rx was issued
C21_Witness ==
  /\ spc[1] = "traversing"
  /\ sargs[1].packageName = "race"
  /\ \E t, u \in DOMAIN stasks[1] :
       /\ t # u
       /\ stasks[1][t].depName = "rx" /\ stasks[1][u].depName = "rx"
       /\ stasks[1][t].frame # stasks[1][u].frame
  /\ swork[1].fetches = Cardinality(svisited[1])

(***************************************************************************)
(* Properties of the results of both scanners.                             *)
(***************************************************************************)
\* no name occurs twice in the sequence
NoDuplicates(pkgs) ==
  \A j, k \in DOMAIN pkgs : pkgs[j] = pkgs[k] => j = k

\* the results a scan is working on or has returned, and the cached ones
ResultsHeld ==
  {sresult[s] : s \in Scans} \cup {sret[s] : s \in Scans}
  \cup {analysisCache[g][k] : g \in Strategies, k \in CacheKeys}

\* C22: in every result either scanner is building, has returned or has
\* cached, insecurePackages holds no name twice, also when a name is in both
\* the built-in set and the deny-list, is declared by several packages or is
\* met by concurrent callbacks
C22_NoDuplicates ==
  \A r \in ResultsHeld : NoDuplicates(r.insecurePackages)

\* a sandbox scan has returned: canvas, which is in the built-in set and on
\* the deny-list, was found installed and is reported next to other names
C22_Witness ==
  \E s \in Scans :
    /\ Scanned(s)
    /\ sargs[s].strategy = "sandbox"
    /\ "canvas" \in UNSAFE_DEPENDENCIES \cap slist[s]
    /\ IncludesName(sret[s].insecurePackages, "canvas")
    /\ Len(sret[s].insecurePackages) = 3

\* C29: in every result either scanner is building, has returned or has
\* cached, isInsecure is true exactly when insecurePackages is not empty,
\* and the result of a scan that failed as a whole (deny-list load, root
\* fetch, missing version, mkdtemp, manifest write, install) has
\* isInsecure = false
C29_FlagMatchesList ==
  /\ \A r \in ResultsHeld : r.isInsecure <=> r.insecurePackages # <<>>
  /\ \A s \in Scans :
       sfailed[s] \cap ScanLevelFailures # {} =>
         /\ ~sresult[s].isInsecure
         /\ sresult[s].error # ""

\* one call has returned findings, another has returned the error of its
\* failed scan
C29_Witness ==
  \E s, o \in Scans :
    /\ Scanned(s) /\ Scanned(o)
    /\ sret[s].isInsecure /\ Len(sret[s].insecurePackages) >= 2
    /\ sfailed[o] \cap ScanLevelFailures # {}
    /\ ~sret[o].isInsecure /\ sret[o].insecurePackages = <<>>

\* the call has left analyzePackageDependencies' try block, with or without
\* the removal of its temporary directory still to come
Exited(pc) == pc \in {"cleanup", "done"}

\* C30: as long as no cache is cleared, every exit path of
\* analyzePackageDependencies stores the result it hands back under
\* name@version: a call that has exited finds an entry for its identity, the
\* step that exits stores the very result the call returns, also when it
\* carries an error, and a call that begins while an entry is present
\* returns that entry at once, starting no load, fetch or install and
\* leaving the cache as it is; when the previous call for the identity was
\* not overlapped by another, the entry returned is that call's result
C30_EveryExitIsCached ==
  /\ [](\A s \in Scans :
          /\ Exited(spc[s]) =>
                CacheHas(analysisCache[sargs[s].strategy], KeyOf(sargs[s]))
          /\ (spc[s] = "done" /\ shit[s]) => swork[s] = NoWork
          /\ Scanned(s) => sret[s] = sresult[s])
  /\ [][\A s \in Scans :
          /\ ( ~Exited(spc[s]) /\ Exited(spc'[s]) /\ ~shit'[s] ) =>
                analysisCache'[sargs[s].strategy][KeyOf(sargs[s])] = sresult'[s]
          /\ ( spc[s] = "idle" /\ spc'[s] # "idle" ) =>
                LET g == sargs'[s].strategy
                    key == KeyOf(sargs'[s])
                IN IF CacheHas(analysisCache[g], key)
                   THEN /\ spc'[s] = "done" /\ shit'[s]
                        /\ sret'[s] = analysisCache[g][key]
                        /\ sexpect'[s] # NoRes => sret'[s] = sexpect'[s]
                        /\ analysisCache' = analysisCache
                   ELSE /\ ~shit'[s]
                        /\ \A o \in Scans \ {s} :
                             Exited(spc[o]) => sargs[o] # sargs'[s]]_vars

\* a scan has failed as a whole and returned its error result, and a later
\* call for the same identity has returned the same result from the cache
\* without any work of its own
C30_Witness ==
  \E s, o \in Scans :
    /\ Scanned(s)
    /\ sfailed[s] \cap ScanLevelFailures # {}
    /\ sret[s].error # ""
    /\ spc[o] = "done" /\ shit[o]
    /\ sargs[o] = sargs[s]
    /\ sret[o] = sret[s]
    /\ swork[o] = NoWork

\* the call has loaded a deny-list that holds the scanned package's own name
OwnNameListed(s) ==
  /\ spc[s] \notin {"idle", "loading"}
  /\ ~shit[s]
  /\ sargs[s].packageName \in slist[s]

\* C31: when the deny-list a scan has loaded holds the scanned package's own
\* name, the scan returns at once, in both scanners, with isInsecure = true,
\* insecurePackages = [that name] and no error; it has started no registry
\* fetch and no install, has created no temporary directory, has begun no
\* traversal, and the result is the one stored in the cache
C31_OwnNameOnly ==
  \A s \in Scans :
    OwnNameListed(s) =>
      /\ spc[s] = "done"
      /\ sret[s].isInsecure
      /\ sret[s].insecurePackages = <<sargs[s].packageName>>
      /\ sret[s].error = ""
      /\ swork[s] = [NoWork EXCEPT !.loads = 1]
      /\ stempDir[s] = NoDir
      /\ \A d \in TmpNames : ~(fsDirs[d].exists /\ fsDirs[d].owner = s)
      /\ sframes[s] = <<>> /\ stasks[s] = <<>> /\ svisited[s] = {}
      /\ sfailed[s] = {}
      /\ CacheHas(analysisCache[sargs[s].strategy], KeyOf(sargs[s]))

\* a deny-listed package, whose installation would bring an unsafe package
\* with it, has been scanned by the sandbox scanner
C31_Witness ==
  \E s \in Scans :
    /\ OwnNameListed(s)
    /\ sargs[s].strategy = "sandbox"
    /\ sargs[s].packageName = "evil"
    /\ \E k \in DOMAIN InstalledTree("evil") :
         InstalledTree("evil")[k].name \in UNSAFE_DEPENDENCIES
    /\ sret[s] = Result(TRUE, <<"evil">>, sret[s].analyzedAt, "")

(***************************************************************************)
(* Properties of the sandbox scanner.                                      *)
(***************************************************************************)
\* the sandbox call has returned after creating a temporary directory
SandboxReturned(s) ==
  /\ spc[s] = "done"
  /\ sargs[s].strategy = "sandbox"
  /\ stempDir[s] # NoDir

\* the temporary directories call s has created and that still exist
DirsLeftBy(s) == {d \in TmpNames : fsDirs[d].exists /\ fsDirs[d].owner = s}

\* C23: after a sandbox call has returned, on every exit path (success,
\* manifest write failure, install failure, missing node_modules, enumeration
\* error), the temporary directory it created no longer exists, provided the
\* removal in the finally block has not failed
C23_TempDirRemoved ==
  \A s \in Scans :
    (SandboxReturned(s) /\ "cleanup" \notin sfailed[s]) => DirsLeftBy(s) = {}

\* the statement without the proviso: the directory is gone after every
\* returned call
C23_TempDirAlwaysRemoved ==
  \A s \in Scans : SandboxReturned(s) => DirsLeftBy(s) = {}

\* a sandbox call has returned after a failed install and its directory is
\* gone
C23_Witness ==
  \E s \in Scans :
    /\ SandboxReturned(s)
    /\ "install" \in sfailed[s]
    /\ "cleanup" \notin sfailed[s]
    /\ ~fsDirs[stempDir[s]].exists

\* C24: a sandbox call that has created its temporary directory returns
\* only through the removal of the directory, and a failed removal changes
\* nothing: the call does not raise and returns the result it had stored
\* before the removal, as it does when the removal succeeds
C24_CleanupNeverFailsScan ==
  /\ [](\A s \in Scans :
          /\ spc[s] # "raised"
          /\ SandboxReturned(s) => sret[s] = sresult[s])
  /\ [][\A s \in Scans :
          ( /\ spc[s] # "done" /\ spc'[s] = "done"
            /\ sargs[s].strategy = "sandbox"
            /\ stempDir[s] # NoDir )
          => /\ spc[s] = "cleanup"
             /\ sret'[s] = sresult[s]]_vars

\* a sandbox call has returned its findings although the removal of its
\* directory failed
C24_Witness ==
  \E s \in Scans :
    /\ SandboxReturned(s)
    /\ "cleanup" \in sfailed[s]
    /\ DirsLeftBy(s) # {}
    /\ sret[s].isInsecure
    /\ sret[s].error = ""

\* C25: when the install of a sandbox scan fails (non-zero exit or the
\* timeout), the scan does not raise and does not go on to node_modules: it
\* is left with the removal of its directory and the return of a result
\* with error set, isInsecure = false and no insecurePackages
C25_InstallFailure ==
  \A s \in Scans :
    /\ spc[s] # "raised"
    /\ "install" \in sfailed[s] =>
         /\ spc[s] \in {"cleanup", "done"}
         /\ "enumerate" \notin sfailed[s]
         /\ sresult[s].error # ""
         /\ ~sresult[s].isInsecure
         /\ sresult[s].insecurePackages = <<>>
         /\ spc[s] = "done" => sret[s] = sresult[s]

\* a sandbox call has returned after its install failed
C25_Witness ==
  \E s \in Scans :
    /\ SandboxReturned(s)
    /\ sfailed[s] = {"install"}
    /\ sret[s].error = MsgInstall
    /\ swork[s].installs = 1

\* the sandbox call is between the creation and the removal of its
\* temporary directory
UsingDir(s) == spc[s] \in {"write", "install", "access", "enumerate", "cleanup"}

\* C26: sandbox scans in progress at the same time use different temporary
\* directories, the directory of a scan in progress exists and is the one
\* the scan created, and a directory disappears only by the cleanup of the
\* scan that created it
C26_NoInterference ==
  /\ [](\A a, b \in Scans :
          (a # b /\ UsingDir(a) /\ UsingDir(b)) => stempDir[a] # stempDir[b])
  /\ [](\A s \in Scans :
          UsingDir(s) => /\ stempDir[s] # NoDir
                         /\ fsDirs[stempDir[s]].exists
                         /\ fsDirs[stempDir[s]].owner = s)
  /\ [][\A d \in TmpNames :
          (fsDirs[d].exists /\ fsDirs'[d] # fsDirs[d]) =>
            /\ UsingDir(fsDirs[d].owner)
            /\ stempDir[fsDirs[d].owner] = d
            /\ spc'[fsDirs[d].owner] # spc[fsDirs[d].owner]]_vars

\* two sandbox scans are in progress, one enumerating its node_modules and
\* the other about to remove its directory
C26_Witness ==
  /\ spc[1] = "enumerate"
  /\ spc[2] = "cleanup"
  /\ stempDir[1] # stempDir[2]

\* the package names a node_modules listing holds, at any depth
RECURSIVE NamesIn(_)
NamesIn(entries) ==
  LET Nested(e) == IF e.hasNM THEN NamesIn(e.nm) ELSE {}
      Dirs(es) == {es[k] : k \in {j \in DOMAIN es : es[j].isDirectory}}
      NamesOf(e) ==
        IF StartsWith(e.name, "@")
        THEN UNION {{Join(e.name, x.name)} \cup Nested(x) : x \in Dirs(e.entries)}
        ELSE IF e.name \in {".bin", ".yarn-integrity"} THEN {}
        ELSE {e.name} \cup Nested(e)
  IN UNION {NamesOf(e) : e \in Dirs(entries)}

\* C27: when every directory read succeeds, getInstalledPackages returns
\* exactly the installed package names of the tree, each once: unscoped
\* packages by name, scoped ones as @scope/name, those of nested
\* node_modules at any depth included, and neither .bin, .yarn-integrity,
\* the scope directory itself nor any entry that is not a directory
C27_ExactlyInstalled ==
  (epc = "returned" /\ eunreadable = {}) =>
    /\ {ereturned[k] : k \in DOMAIN ereturned} = NamesIn(etree)
    /\ NoDuplicates(ereturned)

\* the call has returned the names of a tree that holds the same package
\* at two depths and a scoped package three levels down
C27_Witness ==
  /\ epc = "returned"
  /\ eunreadable = {}
  /\ \E k \in DOMAIN etree : etree[k].name = "c"
  /\ \E k \in DOMAIN etree : etree[k].name = "a"
  /\ {ereturned[k] : k \in DOMAIN ereturned} = {"a", "c", "d", "@s/x"}

\* the directories whose read failed during the enumeration of call s
FailedReads(s) == sfailed[s] \cap SandboxDirs

\* the sandbox call has been through an enumeration in which a read failed
PartlyEnumerated(s) ==
  /\ sargs[s].strategy = "sandbox"
  /\ "enumerate" \in sfailed[s]

\* the names an enumeration collects when the reads of the directories U
\* fail: a failed read of a node_modules directory yields nothing from it, a
\* failed read of a scope directory ends the listing the scope directory is
\* in, and the listings of the enclosing directories go on
RECURSIVE Collected(_, _, _)
Collected(path, entries, U) ==
  LET IsScope(e) == e.isDirectory /\ StartsWith(e.name, "@")
      Abandoned(k) ==
        \E j \in 1..k : IsScope(entries[j]) /\ Join(path, entries[j].name) \in U
      Nested(dir, e) ==
        IF e.hasNM
        THEN Collected(Join(Join(dir, e.name), "node_modules"), e.nm, U)
        ELSE {}
      Of(e) ==
        IF IsScope(e)
        THEN UNION {{Join(e.name, x.name)} \cup Nested(Join(path, e.name), x) :
                      x \in {e.entries[i] : i \in {j \in DOMAIN e.entries :
                                                      e.entries[j].isDirectory}}}
        ELSE IF e.name \in {".bin", ".yarn-integrity"} THEN {}
        ELSE {e.name} \cup Nested(path, e)
  IN IF path \in U THEN {}
     ELSE UNION {Of(entries[k]) :
                   k \in {j \in DOMAIN entries :
                            entries[j].isDirectory /\ ~Abandoned(j)}}

\* the directory reads and the names met by an enumeration that nothing
\* stops, in the order in which they happen
RECURSIVE EventsOfListing(_, _)
RECURSIVE EventsOfEntries(_, _, _)
EventsOfEntries(dir, entries, scope) ==
  IF entries = <<>> THEN <<>>
  ELSE LET e == Head(entries)
           rest == EventsOfEntries(dir, Tail(entries), scope)
       IN IF ~e.isDirectory THEN rest
          ELSE IF scope = "" /\ StartsWith(e.name, "@")
          THEN <<[kind |-> "read", text |-> Join(dir, e.name)]>>
                 \o EventsOfEntries(Join(dir, e.name), e.entries, e.name)
                 \o rest
          ELSE IF scope = "" /\ e.name \in {".bin", ".yarn-integrity"} THEN rest
          ELSE <<[kind |-> "name",
                  text |-> IF scope = "" THEN e.name ELSE Join(scope, e.name)]>>
                 \o (IF e.hasNM
                     THEN EventsOfListing(Join(Join(dir, e.name), "node_modules"),
                                          e.nm)
                     ELSE <<>>)
                 \o rest
EventsOfListing(path, entries) ==
  <<[kind |-> "read", text |-> path]>> \o EventsOfEntries(path, entries, "")

\* the names met before the first read that fails
NamesBeforeFailure(events, U) ==
  LET fails == {k \in DOMAIN events :
                  events[k].kind = "read" /\ events[k].text \in U}
  IN {events[k].text :
        k \in {j \in DOMAIN events :
                 events[j].kind = "name" /\ \A f \in fails : j < f}}

\* the result of call s is the verdict on the given names and nothing else:
\* no error field, the flag and the list from those names alone, and an
\* entry for the identity in the cache
VerdictOn(s, names) ==
  /\ spc[s] \in {"cleanup", "done"}
  /\ sresult[s].error = ""
  /\ {sresult[s].insecurePackages[k] : k \in DOMAIN sresult[s].insecurePackages}
       = names \cap (UNSAFE_DEPENDENCIES \cup slist[s])
  /\ sresult[s].isInsecure <=> names \cap (UNSAFE_DEPENDENCIES \cup slist[s]) # {}
  /\ spc[s] = "done" => sret[s] = sresult[s]
  /\ CacheHas(analysisCache["sandbox"], KeyOf(sargs[s]))

\* C33 as stated: after a failed directory read the scan returns, without
\* raising and with no error field, a cached verdict computed from only the
\* names collected before the failure
C33_NamesUpToFailure ==
  /\ \A s \in Scans : spc[s] # "raised"
  /\ \A s \in Scans :
       PartlyEnumerated(s) =>
         VerdictOn(s, NamesBeforeFailure(
                        EventsOfListing("node_modules",
                                        InstalledTree(sargs[s].packageName)),
                        FailedReads(s)))

\* C33: a failed directory read never raises out of getInstalledPackages or
\* out of the scan: the listing in which the read failed is abandoned, the
\* listings of the enclosing directories go on, and the scan returns, with
\* no error field, the verdict on the names collected that way, which are
\* installed names of the tree; the result is stored in the cache in the
\* step that ends the enumeration
C33_PartialEnumeration ==
  /\ [](\A s \in Scans :
          /\ spc[s] # "raised"
          /\ PartlyEnumerated(s) =>
               /\ VerdictOn(s, Collected("node_modules",
                                         InstalledTree(sargs[s].packageName),
                                         FailedReads(s)))
               /\ Collected("node_modules", InstalledTree(sargs[s].packageName),
                            FailedReads(s))
                    \subseteq NamesIn(InstalledTree(sargs[s].packageName)))
  /\ [][\A s \in Scans :
          ( spc[s] = "enumerate" /\ spc'[s] # "enumerate" ) =>
              /\ spc'[s] = "cleanup"
              /\ analysisCache'["sandbox"][KeyOf(sargs[s])] = sresult'[s]]_vars

\* the read of the node_modules directory nested in the first package has
\* failed, and the scan has returned a verdict that names a package listed
\* after it
C33_Witness ==
  \E s \in Scans :
    /\ PartlyEnumerated(s)
    /\ spc[s] = "done"
    /\ FailedReads(s) = {Join(Join("node_modules", "plugin"), "node_modules")}
    /\ "puppeteer" \notin
         NamesBeforeFailure(EventsOfListing("node_modules",
                                            InstalledTree(sargs[s].packageName)),
                            FailedReads(s))
    /\ IncludesName(sret[s].insecurePackages, "puppeteer")
    /\ sret[s].error = ""
    /\ analysisCache["sandbox"][KeyOf(sargs[s])] = sret[s]

(***************************************************************************)
(* Properties of the cache.                                                *)
(***************************************************************************)
\* the names the requested version declares directly
DirectNames(args) == OwnAndDirect(args) \ {args.packageName}

\* result r for the identity of args was evaluated against the deny-list
\* `list`, as far as the direct dependencies show
EvaluatedAgainst(r, args, list) ==
  \A d \in DirectNames(args) :
    IncludesName(r.insecurePackages, d) <=> d \in UNSAFE_DEPENDENCIES \cup list

\* C28: a cached result is returned as stored until the cache is cleared,
\* also when the deny-list has changed; clearAnalysisCache() leaves the
\* cache empty; and a call made after the cache was cleared (following a
\* refresh of the deny-list) for an identity that was cached does not
\* return a result evaluated against the old deny-list from the cache
C28_ClearedCacheIsFresh ==
  /\ [][\A s \in Scans :
          (~shit[s] /\ shit'[s]) =>
            sret'[s] = analysisCache["metadata"][KeyOf(sargs'[s])]]_vars
  /\ [][(~cleared["metadata"] /\ cleared'["metadata"]) =>
          CacheSize(analysisCache'["metadata"]) = 0]_vars
  /\ [][\A s \in Scans :
          (~shit[s] /\ shit'[s] /\ cleared["metadata"]) =>
            EvaluatedAgainst(sret'[s], sargs'[s], known)]_vars

(***************************************************************************)
(* Specifications of the fetch client.                                     *)
(***************************************************************************)
\* one call, every argument and every outcome of a request
NextFetch ==
  \/ Call(1, 1..MaxRetr, BOOLEAN, BOOLEAN) /\ UNCHANGED <<scanVars, enumVars, known>>
  \/ Admit /\ UNCHANGED <<scanVars, enumVars, known>>
  \/ \E r \in Responses : Respond(1, r) /\ UNCHANGED <<scanVars, enumVars, known>>
  \/ Timer(1) /\ UNCHANGED <<scanVars, enumVars, known>>

SpecFetch == Init /\ [][NextFetch]_vars

\* several calls sharing the limiter
NextLimiter ==
  \/ \E c \in Calls : Call(c, 1..LimRetr, {TRUE}, BOOLEAN) /\ UNCHANGED <<scanVars, enumVars, known>>
  \/ Admit /\ UNCHANGED <<scanVars, enumVars, known>>
  \/ \E c \in Calls, r \in LimiterResponses :
       Respond(c, r) /\ UNCHANGED <<scanVars, enumVars, known>>
  \/ \E c \in Calls : Timer(c) /\ UNCHANGED <<scanVars, enumVars, known>>

SpecLimiter == Init /\ [][NextLimiter]_vars

\* the outcomes of a request made through the limiter: success, 429, another
\* status, a connection reset and the expiry of config.REQUEST_TIMEOUT
QueueResponses == LimiterResponses \cup {NetErr("ETIMEDOUT")}

\* primary-origin calls only, all of them through the limiter
NextQueue ==
  \/ \E c \in Calls : Call(c, 1..LimRetr, {TRUE}, {TRUE}) /\ UNCHANGED <<scanVars, enumVars, known>>
  \/ Admit /\ UNCHANGED <<scanVars, enumVars, known>>
  \/ \E c \in Calls, r \in QueueResponses :
       Respond(c, r) /\ UNCHANGED <<scanVars, enumVars, known>>
  \/ \E c \in Calls : Timer(c) /\ UNCHANGED <<scanVars, enumVars, known>>

\* every request made completes, and the limiter starts a queued function
\* as soon as it has a slot; nothing is assumed about new calls or about
\* the backoff timers
SpecQueue ==
  /\ Init
  /\ [][NextQueue]_vars
  /\ WF_vars(Admit /\ UNCHANGED <<scanVars, enumVars, known>>)
  /\ \A c \in Calls :
       WF_vars((\E r \in QueueResponses : Respond(c, r))
                 /\ UNCHANGED <<scanVars, enumVars, known>>)

(***************************************************************************)
(* Properties of fetchWithRetry.                                           *)
(***************************************************************************)
\* the calls that go through the limiter and have a request in flight
PrimaryInFlight ==
  {c \in Calls : fpc[c] = "inflight" /\ fargs[c].isNpmjsOfficialSource}

\* the calls waiting in the limiter's queue
Queued == {queue[k] : k \in DOMAIN queue}

\* a Retry-After header that states a delay in seconds
IsDelaySeconds(h) ==
  h.present /\ h.text # <<>> /\ DigitPrefixLen(h.text) = Len(h.text)
DelaySeconds(h) == DigitsValue(h.text, Len(h.text))

\* C1: a call with retries >= 1 whose attempts all failed raises an error,
\* whatever the class of the last failure: a call that completes normally
\* hands back a response or a payload.
C1_ExhaustedRetriesRaise ==
  \A c \in Calls :
    fpc[c] = "returned" => fres[c].type \in {"response", "json"}

\* C2: after a 429 on attempt i the call waits d*1000 ms when the response
\* states a delay of d seconds (every d >= 0) and 2^i*1000 ms when it states
\* none; a 200 on the next attempt returns the parsed payload.
C2_RetryAfterHonoured ==
  \A c \in Calls :
    /\ (fpc[c] = "waiting" /\ fresp[c].kind = "http" /\ fresp[c].status = 429
          /\ ~IsLastAttempt(fi[c], fargs[c].retries)) =>
         /\ IsDelaySeconds(fresp[c].retryAfter) =>
              fwait[c] = DelaySeconds(fresp[c].retryAfter) * 1000
         /\ ~fresp[c].retryAfter.present => fwait[c] = Pow2(fi[c]) * 1000
    /\ (fwaits[c] > 0 /\ fresp[c].kind = "http" /\ fresp[c].status = 200
          /\ fresp[c].jsonOk /\ fargs[c].returnJson) =>
         (fpc[c] = "returned" /\ fres[c] = JsonResult(fresp[c]))

\* C3: the requests in flight through the limiter never exceed its
\* concurrency; a call with isNpmjsOfficialSource unset is never queued in
\* the limiter and never counted by it.
C3_LimiterBound ==
  /\ Cardinality(PrimaryInFlight) <= NPMJS_CONCURRENT_REQUESTS
  /\ activeCount = Cardinality(PrimaryInFlight)
  /\ \A c \in Calls :
       ~fargs[c].isNpmjsOfficialSource => (fpc[c] # "queued" /\ c \notin Queued)

\* C3 witness: the limiter is full, one more primary call waits in its queue
C3_Witness ==
  \E c, d \in Calls :
    /\ c \in PrimaryInFlight
    /\ activeCount = NPMJS_CONCURRENT_REQUESTS
    /\ fpc[d] = "queued" /\ d \in Queued

C5_BackoffByClass ==
  \A c \in Calls :
    (fpc[c] = "waiting" /\ ~IsLastAttempt(fi[c], fargs[c].retries)) =>
      /\ fi[c] = fwaits[c] - 1
      /\ (fresp[c].kind = "neterr" /\ fresp[c].code = "ECONNRESET") =>
           fwait[c] = Pow2(fwaits[c] - 1) * 1000
      /\ (fresp[c].kind = "http" /\ ~RespOk(fresp[c])
            /\ fresp[c].status \notin {404, 429}) => fwait[c] = 1000

\* C5 witness: the second attempt of three failed with a connection reset
C5_Witness ==
  \E c \in Calls :
    /\ fpc[c] = "waiting" /\ fi[c] = 1 /\ fargs[c].retries = 3
    /\ fresp[c].kind = "neterr" /\ fresp[c].code = "ECONNRESET"
    /\ fwait[c] = 2000

\* C6 as stated: at most `retries` requests per call, and no request after
\* the first 2xx response.
C6_NoRequestAfter2xx ==
  \A c \in Calls :
    /\ freqs[c] <= fargs[c].retries
    /\ got2xx[c] # "no" => fpc[c] \notin {"queued", "inflight"}

\* C6 amended: at most `retries` requests per call, and no request after the
\* first 2xx response whose result is delivered (returnJson unset, or the
\* body parses): the call has returned it.
C6_RequestBound ==
  \A c \in Calls :
    /\ freqs[c] <= fargs[c].retries
    /\ got2xx[c] = "ok" =>
         (fpc[c] = "returned" /\ fres[c].type \in {"response", "json"}
            /\ freqs[c] = fi[c] + 1)

\* C6 witness: the last permitted request of a call succeeded
C6_Witness ==
  \E c \in Calls :
    /\ fargs[c].retries = MaxRetr /\ freqs[c] = MaxRetr
    /\ got2xx[c] = "ok" /\ fpc[c] = "returned"

\* the calls made through the limiter that are waiting for a backoff timer
PrimaryBackingOff ==
  {c \in Calls : fpc[c] = "waiting" /\ fargs[c].isNpmjsOfficialSource}

\* C32: a limiter slot is held only by a primary-origin request in flight:
\* the calls waiting in a backoff hold none; every outcome of a request
\* (success, 429, another status, connection reset, timeout) gives its slot
\* back in the step that ends the request; and, every request completing,
\* each call queued on the limiter is admitted in the end
C32_SlotOnlyInFlight ==
  /\ [](/\ activeCount = Cardinality(PrimaryInFlight)
        /\ PrimaryBackingOff \cap PrimaryInFlight = {}
        /\ activeCount + Cardinality(PrimaryBackingOff) <= NCalls)
  /\ [][\A c \in Calls :
          ( c \in PrimaryInFlight /\ fpc'[c] # "inflight" ) =>
              /\ activeCount' = activeCount - 1
              /\ fresp'[c] \in QueueResponses]_vars
  /\ \A c \in Calls : (fpc[c] = "queued") ~> (fpc[c] = "inflight")

\* a call whose request met a 429 is backing off, and a call that waited in
\* the queue meanwhile holds the only slot
C32_Witness ==
  \E c, d \in Calls :
    /\ c \in PrimaryBackingOff
    /\ fresp[c].status = 429
    /\ d \in PrimaryInFlight
    /\ activeCount = NPMJS_CONCURRENT_REQUESTS

====
